---------------------------- MODULE Spec2Model ----------------------------
(***************************************************************************)
(* Verification model of the trail elevation backend (mapenu-trail-hub).   *)
(*                                                                         *)
(* Units.  Planar coordinates (MGA56 easting/northing) and along-trail     *)
(* positions are integers in metres.  Trail coordinates are modelled by    *)
(* their projected planar position; the pyproj transform itself is an      *)
(* external library and is not modelled.                                   *)
(***************************************************************************)
EXTENDS Integers, Sequences, FiniteSets, TLC

VARIABLES
    \* --- LiDARExtractor.find_matching_lidar_file -----------------------
    lidar_files,      \* the extractor's catalog (self.lidar_files)
    trail_coords,     \* projected trail coordinates of the call
    trail_id,         \* trail_id argument (NoneId when not given)
    match_result,     \* [called, index]: index of the returned record, 0 = None
    \* --- LiDARExtractor.extract_elevation_profile (absolute branch) ----
    cloud,            \* point records of the LAS file
    lidar_trail,      \* projected trail coordinates of the call
    las_file,         \* outcome of locating and reading the file
    lidar_result,     \* result dictionary of the call
    \* --- RealDEMAnalyzer.extract_elevation_profile ----------------------
    dem_files,        \* the analyzer's tiles (self.dem_files)
    dem_coords,       \* trail coordinates of the call
    dem_result,       \* result dictionary of the call
    \* --- POST /upload-gpx ----------------------------------------------
    trails,           \* rows of the trails table, in insertion order
    lidar_table,      \* rows of the lidar_files table
    next_id,          \* next id the trails table assigns
    next_lidar_id,    \* next id the lidar_files table assigns
    upload_response,  \* status of the last upload request
    trails_response,  \* response of the last GET /trails request
    \* --- the point-cloud cache -----------------------------------------
    cache_file,       \* the file at the cache path of one record
    request,          \* request -> its position in the download code
    \* --- GET /trail/{trail_id}/elevation-sources -----------------------
    trail,            \* the row of the trails table the request addresses
    lidar_outcome,    \* what the LiDAR extractor returns for the trail
    xlsx_outcome,     \* what the survey sheet lookup and download return
    dem_outcome,      \* what the DEM analyzer returns for the trail
    response,         \* the response of the request
    second_response,  \* the response of a second request for the same trail
    \* --- calls of single functions -------------------------------------
    call_args,        \* the function called and its arguments
    call_result       \* what the call returned

matchVars == <<lidar_files, trail_coords, trail_id, match_result>>
lidarVars == <<cloud, lidar_trail, las_file, lidar_result>>
demVars == <<dem_files, dem_coords, dem_result>>
uploadVars == <<trails, lidar_table, next_id, next_lidar_id, upload_response, trails_response>>
cacheVars == <<cache_file, request>>
sourcesVars == <<trail, lidar_outcome, xlsx_outcome, dem_outcome, response, second_response>>
callVars == <<call_args, call_result>>
vars == <<lidar_files, trail_coords, trail_id, match_result,
          cloud, lidar_trail, las_file, lidar_result,
          dem_files, dem_coords, dem_result,
          trails, lidar_table, next_id, next_lidar_id, upload_response, trails_response,
          cache_file, request,
          trail, lidar_outcome, xlsx_outcome, dem_outcome, response, second_response,
          call_args, call_result>>

---------------------------------------------------------------------------
(* Generic helpers                                                         *)

Max2(a, b) == IF a >= b THEN a ELSE b
Min2(a, b) == IF a <= b THEN a ELSE b
Abs(a) == IF a < 0 THEN -a ELSE a

SetMax(S) == CHOOSE m \in S : \A x \in S : x <= m
SetMin(S) == CHOOSE m \in S : \A x \in S : m <= x

Range(s) == {s[i] : i \in 1..Len(s)}

\* All sequences over S of length lo..hi
SeqsOf(S, lo, hi) == UNION {[1..n -> S] : n \in lo..hi}

\* Python slice s[:k]
Take(s, k) == SubSeq(s, 1, Min2(k, Len(s)))

---------------------------------------------------------------------------
(* LiDARExtractor.find_matching_lidar_file                                 *)

NoneId == 0
NoneIndex == 0

\* Largest catalog size explored
MaxCatalog == 2

\* Bounding boxes a catalog record may carry (min_x, max_x, min_y, max_y)
BoxSet ==
    { [min_x |-> 0,  max_x |-> 10, min_y |-> 0,  max_y |-> 10],   \* full overlap
      [min_x |-> 0,  max_x |-> 1,  min_y |-> 0,  max_y |-> 2],    \* ratio exactly 0.02
      [min_x |-> 0,  max_x |-> 1,  min_y |-> 0,  max_y |-> 3],    \* ratio 0.03
      [min_x |-> 20, max_x |-> 30, min_y |-> 20, max_y |-> 30] }  \* disjoint

\* A catalog record: bounds may be missing (has_bounds = FALSE models None
\* in any of min_x/max_x/min_y/max_y), trail_id may be None.
RecordSet ==
    [has_bounds : {TRUE}, box : BoxSet, trail_id : {NoneId, 1, 2}]
    \cup [has_bounds : {FALSE}, box : {[min_x |-> 0, max_x |-> 0, min_y |-> 0, max_y |-> 0]},
          trail_id : {NoneId, 1, 2}]

\* Trails offered to the matcher: a diagonal (bbox 10 x 10), a straight
\* east-west line (bbox of zero area) and a single point.
TrailSet ==
    { << <<0, 0>>, <<10, 10>> >>,
      << <<0, 0>>, <<4, 10>>, <<10, 3>> >>,
      << <<0, 0>>, <<10, 0>> >>,
      << <<5, 5>> >> }

\* lines 327-335: trail bounding box
TrailBBox(coords) ==
    [min_x |-> SetMin({coords[i][1] : i \in 1..Len(coords)}),
     max_x |-> SetMax({coords[i][1] : i \in 1..Len(coords)}),
     min_y |-> SetMin({coords[i][2] : i \in 1..Len(coords)}),
     max_y |-> SetMax({coords[i][2] : i \in 1..Len(coords)})]

\* lines 364-375: intersection area of the trail bbox and a record bbox
OverlapArea(tb, lb) ==
    LET overlap_x == Max2(0, Min2(tb.max_x, lb.max_x) - Max2(tb.min_x, lb.min_x))
        overlap_y == Max2(0, Min2(tb.max_y, lb.max_y) - Max2(tb.min_y, lb.min_y))
    IN  overlap_x * overlap_y

\* lines 377-379
TrailArea(tb) == (tb.max_x - tb.min_x) * (tb.max_y - tb.min_y)

\* lines 405-407: best_overlap > min_overlap_threshold, with
\* best_overlap = overlap_area / trail_area and the threshold 0.02 = 1/50.
ExceedsThresholdInclusive(overlap_area, trail_area) ==
    overlap_area * 50 >= trail_area

ExceedsThreshold(overlap_area, trail_area) ==
    overlap_area * 50 > trail_area

\* lines 315-322: first record whose trail_id equals the argument
AssociatedRecordSkipped(files, tid) == NoneIndex

AssociatedRecord(files, tid) ==
    IF tid # NoneId /\ \E i \in 1..Len(files) : files[i].trail_id = tid
    THEN SetMin({i \in 1..Len(files) : files[i].trail_id = tid})
    ELSE NoneIndex

\* lines 337-402: the scan over the catalog.  best = [index, area]; a record
\* replaces the best match only when its ratio is strictly larger, and no
\* record is scored when the trail bbox has zero area.
RECURSIVE ScanRecords(_, _, _, _)
ScanRecords(files, tb, i, best) ==
    IF i > Len(files) THEN best
    ELSE LET r == files[i]
             area == OverlapArea(tb, r.box)
         IN  IF ~r.has_bounds THEN ScanRecords(files, tb, i + 1, best)
             ELSE IF TrailArea(tb) > 0 /\ area > best.area
                  THEN ScanRecords(files, tb, i + 1, [index |-> i, area |-> area])
                  ELSE ScanRecords(files, tb, i + 1, best)

\* lines 294-416
find_matching_lidar_file(files, coords, tid) ==
    IF Len(files) = 0 THEN NoneIndex
    ELSE IF AssociatedRecord(files, tid) # NoneIndex THEN AssociatedRecord(files, tid)
    ELSE LET tb == TrailBBox(coords)
             best == ScanRecords(files, tb, 1, [index |-> NoneIndex, area |-> 0])
         IN  IF best.index # NoneIndex /\ ExceedsThreshold(best.area, TrailArea(tb))
             THEN best.index
             ELSE NoneIndex

MatchIdle == [called |-> FALSE, index |-> NoneIndex]

InitMatch ==
    /\ lidar_files \in SeqsOf(RecordSet, 0, MaxCatalog)
    /\ trail_coords \in TrailSet
    /\ trail_id \in {NoneId, 1, 2}
    /\ match_result = MatchIdle

FindMatchingLidarFile ==
    /\ ~match_result.called
    /\ match_result' = [called |-> TRUE,
                        index |-> find_matching_lidar_file(lidar_files, trail_coords, trail_id)]
    /\ UNCHANGED <<lidar_files, trail_coords, trail_id>>

---------------------------------------------------------------------------
(* LiDARExtractor.extract_elevation_profile                                *)
(*                                                                         *)
(* A cloud is the sequence of point records of the LAS file, in file       *)
(* order: [x, y, z, classification], x and y in metres, z in centimetres.  *)
(* The header bounds x_min..y_max are those of the points of the file.     *)

\* Largest number of trail coordinates handed to the extractor
MaxLidarTrail == 3

\* Largest number of points of a relative-coordinate cloud
MaxRelPoints == 3

\* line 196 / 473: class 2 = ground
GroundClass == 2

\* line 422: search_radius default, metres
SearchRadius == 2

\* lines 509-512: bound below which header coordinates count as relative
RelativeBound == 1000

\* line 217: cap of the number of samples of the relative path
MaxSamples == 200

\* Easting of the first trail point of the absolute-coordinate trails
BaseEasting == 1000

\* Trail point i of the absolute-coordinate trails: 10 m apart, heading east
AbsTrailPoint(i) == <<BaseEasting + 10 * (i - 1), 0>>

AbsTrail(n) == [i \in 1..n |-> AbsTrailPoint(i)]

\* Points that may lie near trail point i: one ground point 1 m away, one
\* ground point exactly on the search radius, one ground point just
\* outside it (distance sqrt(5)).
NearPoints(i) ==
    { [x |-> AbsTrailPoint(i)[1] + 1, y |-> 0, z |-> 10500 + 100 * i, classification |-> GroundClass],
      [x |-> AbsTrailPoint(i)[1],     y |-> 2, z |-> 10100,           classification |-> GroundClass],
      [x |-> AbsTrailPoint(i)[1] + 2, y |-> 1, z |-> 9000,            classification |-> GroundClass] }

\* A point far from every trail point, present in every absolute cloud
AnchorPoint == [x |-> BaseEasting + 500, y |-> 500, z |-> 9900, classification |-> GroundClass]

\* A low vegetation-class point next to the first trail point
LowUnclassified == [x |-> BaseEasting, y |-> 1, z |-> 5000, classification |-> 1]

\* A fixed file order of a set of points (by x, then y, then z)
PointBefore(p, q) ==
    \/ p.x < q.x
    \/ p.x = q.x /\ p.y < q.y
    \/ p.x = q.x /\ p.y = q.y /\ p.z < q.z

RECURSIVE PointsInOrder(_)
PointsInOrder(S) ==
    IF S = {} THEN <<>>
    ELSE LET first == CHOOSE p \in S : \A q \in S \ {p} : PointBefore(p, q)
         IN  <<first>> \o PointsInOrder(S \ {first})

\* lines 471-500: a file without ground points keeps all of its points
Unclassify(pts) == [i \in 1..Len(pts) |-> [pts[i] EXCEPT !.classification = 1]]

AbsClouds(n) ==
    LET near == UNION {NearPoints(i) : i \in 1..n}
        files == {PointsInOrder({AnchorPoint} \cup S \cup L) :
                     S \in SUBSET near, L \in {{}, {LowUnclassified}}}
    IN  files \cup {Unclassify(f) : f \in {PointsInOrder({AnchorPoint, LowUnclassified} \cup S) :
                                               S \in SUBSET NearPoints(1)}}

\* Points of the relative-coordinate clouds
RelPointSet ==
    { [x |-> 0, y |-> 0, z |-> 700, classification |-> GroundClass],
      [x |-> 3, y |-> 4, z |-> 500, classification |-> GroundClass],
      [x |-> 6, y |-> 8, z |-> 900, classification |-> 1] }

\* A file may hold no points at all (its header bounds are then 0)
RelClouds == SeqsOf(RelPointSet, 0, MaxRelPoints)

\* Python filter list comprehension
RECURSIVE SelectSeq2(_, _)
SelectSeq2(s, keep) ==
    IF s = <<>> THEN <<>>
    ELSE (IF keep[1] THEN <<Head(s)>> ELSE <<>>) \o SelectSeq2(Tail(s), Tail(keep))

\* lines 469-500 (and 193-204): keep the ground points when the file has any
GroundFilter(pts) ==
    LET ground_mask == [i \in 1..Len(pts) |-> pts[i].classification = GroundClass]
    IN  IF \E i \in 1..Len(pts) : ground_mask[i]
        THEN SelectSeq2(pts, ground_mask)
        ELSE pts

\* lines 505-513: header bounds of the file, all four below 1000 in
\* absolute value
is_relative_coords(pts) ==
    LET xs == IF pts = <<>> THEN {0} ELSE {pts[i].x : i \in 1..Len(pts)}
        ys == IF pts = <<>> THEN {0} ELSE {pts[i].y : i \in 1..Len(pts)}
    IN  /\ Abs(SetMin(xs)) < RelativeBound
        /\ Abs(SetMax(xs)) < RelativeBound
        /\ Abs(SetMin(ys)) < RelativeBound
        /\ Abs(SetMax(ys)) < RelativeBound

\* line 539: kdtree.query_ball_point([x, y], r): indices within distance r
QueryBallPoint(pts, x, y, r) ==
    {i \in 1..Len(pts) : (pts[i].x - x) * (pts[i].x - x) + (pts[i].y - y) * (pts[i].y - y) <= r * r}

\* lines 537-555: the loop over the trail points.  acc = [elevations,
\* matched_coords]; an unmatched point repeats the previous elevation only
\* when there is one.
AbsoluteStep(pts, coords, i, acc) ==
    LET indices == QueryBallPoint(pts, coords[i][1], coords[i][2], SearchRadius)
    IN  IF indices # {}
        THEN [elevations |-> Append(acc.elevations, SetMin({pts[k].z : k \in indices})),
              matched_coords |-> Append(acc.matched_coords, coords[i])]
        ELSE IF i > 1 /\ Len(acc.elevations) > 0
             THEN [elevations |-> Append(acc.elevations, acc.elevations[Len(acc.elevations)]),
                   matched_coords |-> Append(acc.matched_coords, coords[i])]
             ELSE acc

RECURSIVE AbsoluteLoop(_, _, _, _)
AbsoluteLoop(pts, coords, i, acc) ==
    IF i > Len(coords) THEN acc
    ELSE AbsoluteLoop(pts, coords, i + 1, AbsoluteStep(pts, coords, i, acc))


\* Integer square root (floor), standing in for np.sqrt at the model's resolution
RECURSIVE ISqrtIter(_, _, _)
ISqrtIter(n, lo, hi) ==
    IF lo >= hi THEN lo
    ELSE LET mid == (lo + hi + 1) \div 2
         IN  IF mid * mid <= n THEN ISqrtIter(n, mid, hi) ELSE ISqrtIter(n, lo, mid - 1)

\* 46340 is the largest root of a 32-bit integer
ISqrt(n) == ISqrtIter(n, 0, Min2(n, 46340))

\* np.argsort on a small array: insertion sort, which keeps equal keys in
\* file order
RECURSIVE InsertByKey(_, _, _)
InsertByKey(sorted, p, axis) ==
    IF sorted = <<>> THEN <<p>>
    ELSE LET last == sorted[Len(sorted)]
         IN  IF (IF axis = "x" THEN last.x <= p.x ELSE last.y <= p.y)
             THEN Append(sorted, p)
             ELSE Append(InsertByKey(SubSeq(sorted, 1, Len(sorted) - 1), p, axis), last)

RECURSIVE SortByAxis(_, _)
SortByAxis(pts, axis) ==
    IF pts = <<>> THEN <<>>
    ELSE InsertByKey(SortByAxis(SubSeq(pts, 1, Len(pts) - 1), axis), pts[Len(pts)], axis)

\* lines 241-249: minimum elevation of each segment that starts inside the
\* sorted points
RECURSIVE SegmentMinima(_, _, _, _)
SegmentMinima(sorted_points, segment_size, num_samples, i) ==
    IF i >= num_samples THEN <<>>
    ELSE LET start_idx == i * segment_size
             end_idx == Min2(start_idx + segment_size, Len(sorted_points))
         IN  IF start_idx < Len(sorted_points)
             THEN <<SetMin({sorted_points[k].z : k \in (start_idx + 1)..end_idx})>>
                      \o SegmentMinima(sorted_points, segment_size, num_samples, i + 1)
             ELSE SegmentMinima(sorted_points, segment_size, num_samples, i + 1)

\* lines 252-254: np.linspace(0, len - 1, count, dtype=int), as 1-based
\* positions in sorted_points
SampleIndices(len, count) ==
    [i \in 1..count |-> IF count = 1 THEN 1 ELSE ((i - 1) * (len - 1)) \div (count - 1) + 1]

\* lines 256-272: cumulative planar distance between the sampled points,
\* in millimetres (distances_km * 10^6)
RECURSIVE RelativeDistances(_, _, _)
RelativeDistances(sorted_points, sample_indices, i) ==
    IF i = 0 THEN <<>>
    ELSE IF i = 1 THEN <<0>>
    ELSE LET before == RelativeDistances(sorted_points, sample_indices, i - 1)
             prev_point == sorted_points[sample_indices[i - 1]]
             curr_point == sorted_points[sample_indices[i]]
             dx == curr_point.x - prev_point.x
             dy == curr_point.y - prev_point.y
             dist == ISqrt((dx * dx + dy * dy) * 1000000)
         IN  Append(before, before[i - 1] + dist)

NoResult ==
    [called |-> FALSE, success |-> FALSE, error |-> "", elevations |-> <<>>,
     distances |-> <<>>, coordinates |-> <<>>, coverage |-> [num |-> 0, den |-> 1],
     note |-> "", kdtree_built |-> FALSE]

\* lines 174-292.  np.argmin raises on a file without points (line 211);
\* extract_elevation_profile catches it and reports the failure
\* (lines 572-579).
extract_profile_from_relative_lidar(lidar_points, coords) ==
    IF lidar_points = <<>>
    THEN [NoResult EXCEPT !.called = TRUE, !.error = "exception"]
    ELSE
    LET pts == GroundFilter(lidar_points)
        num_samples == Min2(Len(coords), MaxSamples)
        xs == {pts[i].x : i \in 1..Len(pts)}
        ys == {pts[i].y : i \in 1..Len(pts)}
        x_range == SetMax(xs) - SetMin(xs)
        y_range == SetMax(ys) - SetMin(ys)
        sorted_points == IF x_range > y_range THEN SortByAxis(pts, "x") ELSE SortByAxis(pts, "y")
        segment_size == Max2(1, Len(sorted_points) \div num_samples)
        sampled_elevations == SegmentMinima(sorted_points, segment_size, num_samples, 0)
        sample_indices == SampleIndices(Len(sorted_points), Len(sampled_elevations))
    IN  [called |-> TRUE, success |-> TRUE, error |-> "",
         elevations |-> sampled_elevations,
         distances |-> RelativeDistances(sorted_points, sample_indices, Len(sample_indices)),
         coordinates |-> Take(coords, num_samples),
         coverage |-> [num |-> 100, den |-> 1],
         note |-> "LiDAR uses relative coordinates",
         kdtree_built |-> FALSE]

\* lines 525-570: the absolute-coordinate branch
extract_absolute(all_points, coords) ==
    LET pts == GroundFilter(all_points)
        out == AbsoluteLoop(pts, coords, 1, [elevations |-> <<>>, matched_coords |-> <<>>])
    IN  [called |-> TRUE, success |-> TRUE, error |-> "",
         elevations |-> out.elevations,
         distances |-> <<>>,
         coordinates |-> out.matched_coords,
         coverage |-> [num |-> 100 * Len(out.elevations), den |-> Len(coords)],
         note |-> "",
         kdtree_built |-> TRUE]

\* the routing without the relative-coordinate check of lines 505-524
extract_always_absolute(located, all_points, coords) ==
    IF located = "no_match"
    THEN [NoResult EXCEPT !.called = TRUE, !.error = "No matching LiDAR file found"]
    ELSE IF located = "not_accessible"
    THEN [NoResult EXCEPT !.called = TRUE, !.error = "LiDAR file not accessible"]
    ELSE extract_absolute(all_points, coords)

\* lines 418-579.  located is the outcome of locating the file: no record
\* matched, the file is not accessible, or it was read into all_points.
extract_elevation_profile(located, all_points, coords) ==
    IF located = "no_match"
    THEN [NoResult EXCEPT !.called = TRUE, !.error = "No matching LiDAR file found"]
    ELSE IF located = "not_accessible"
    THEN [NoResult EXCEPT !.called = TRUE, !.error = "LiDAR file not accessible"]
    ELSE IF is_relative_coords(all_points)
    THEN extract_profile_from_relative_lidar(all_points, coords)
    ELSE extract_absolute(all_points, coords)

InitLidar ==
    /\ \E n \in 1..MaxLidarTrail :
          /\ lidar_trail = AbsTrail(n)
          /\ \/ cloud \in AbsClouds(n) /\ las_file = "readable"
             \/ cloud \in RelClouds /\ las_file = "readable"
             \/ cloud = <<AnchorPoint>> /\ las_file \in {"no_match", "not_accessible"}
    /\ lidar_result = NoResult

ExtractElevationProfile ==
    /\ ~lidar_result.called
    /\ lidar_result' = extract_elevation_profile(las_file, cloud, lidar_trail)
    /\ UNCHANGED <<cloud, lidar_trail, las_file>>

---------------------------------------------------------------------------
(* RealDEMAnalyzer.extract_elevation_profile                               *)
(*                                                                         *)
(* Trails of this part run along the line of northing 0, so a coordinate   *)
(* is its easting in metres.  A tile is [left, right, bottom, top] with    *)
(* 1 m pixels; its pixel in column c reads base + c centimetres, or the    *)
(* no-data value when c is in nodata_cols.                                 *)

\* Largest number of DEM files of the analyzer
MaxTiles == 2

\* line 88: sampling interval along the trail, metres
SampleInterval == 10

TileSet ==
    { [left |-> 0,   right |-> 40,  bottom |-> -5, top |-> 5, base |-> 10000, nodata_cols |-> {}],
      [left |-> 0,   right |-> 15,  bottom |-> -5, top |-> 5, base |-> 20000, nodata_cols |-> {}],
      [left |-> 10,  right |-> 40,  bottom |-> -5, top |-> 5, base |-> 30000, nodata_cols |-> {0}],
      [left |-> 100, right |-> 140, bottom |-> -5, top |-> 5, base |-> 40000, nodata_cols |-> {}] }

\* Trails offered to the analyzer (eastings of the coordinates)
DemTrailSet ==
    { <<0>>, <<0, 0>>, <<0, 10>>, <<0, 25>>, <<0, 5, 10>>, <<0, 20, 10>>, <<5, 12, 20, 31>> }

\* lines 39-68: tiles whose bounds intersect the trail bounding box
find_relevant_dem_tiles(files, coords) ==
    LET min_x == SetMin(Range(coords))
        max_x == SetMax(Range(coords))
        relevant == [i \in 1..Len(files) |->
                        /\ min_x <= files[i].right
                        /\ max_x >= files[i].left
                        /\ 0 <= files[i].top
                        /\ 0 >= files[i].bottom]
    IN  SelectSeq2(files, relevant)

\* line 85: LineString.length
RECURSIVE LineLength(_)
LineLength(coords) ==
    IF Len(coords) < 2 THEN 0
    ELSE Abs(coords[2] - coords[1]) + LineLength(Tail(coords))

\* line 89: LineString.interpolate(distance)
RECURSIVE Interpolate(_, _)
Interpolate(coords, d) ==
    IF Len(coords) < 2 THEN coords[1]
    ELSE LET seg == Abs(coords[2] - coords[1])
         IN  IF d <= seg
             THEN (IF coords[2] >= coords[1] THEN coords[1] + d ELSE coords[1] - d)
             ELSE Interpolate(Tail(coords), d - seg)

\* lines 88-89: np.arange(0, length, 10) and the points at those distances
SampleDistances(coords) ==
    LET length == LineLength(coords)
        count == (length + SampleInterval - 1) \div SampleInterval
    IN  [i \in 1..count |-> (i - 1) * SampleInterval]

SamplePoints(coords) ==
    LET distances == SampleDistances(coords)
    IN  [i \in 1..Len(distances) |-> Interpolate(coords, distances[i])]

\* lines 98-128: the samples one tile contributes, in sample order
RECURSIVE TileSamples(_, _, _)
TileSamples(tile, sample_points, i) ==
    IF i > Len(sample_points) THEN <<>>
    ELSE LET x == sample_points[i]
             col == x - tile.left
             row == tile.top - 0
             within_bounds == tile.left <= x /\ x <= tile.right /\ tile.bottom <= 0 /\ 0 <= tile.top
             within_raster == /\ 0 <= row /\ row < tile.top - tile.bottom
                              /\ 0 <= col /\ col < tile.right - tile.left
             rest == TileSamples(tile, sample_points, i + 1)
         IN  IF within_bounds /\ within_raster /\ col \notin tile.nodata_cols
             THEN <<[elevation |-> tile.base + col, sample |-> i]>> \o rest
             ELSE rest

\* lines 94-132: the tiles are processed one after another, each appending
\* to the same elevations list
RECURSIVE AllTileSamples(_, _)
AllTileSamples(tiles, sample_points) ==
    IF tiles = <<>> THEN <<>>
    ELSE TileSamples(Head(tiles), sample_points, 1) \o AllTileSamples(Tail(tiles), sample_points)

DemNoResult ==
    [called |-> FALSE, success |-> FALSE, error |-> "", elevations |-> <<>>,
     distances |-> <<>>, slopes |-> <<>>, samples |-> <<>>]

DemError(msg) == [DemNoResult EXCEPT !.called = TRUE, !.error = msg]

\* lines 70-174.  slopes are whole percents (centimetres of rise per
\* 10 m run, divided by 10); samples is the list of sample indices the elevations were
\* read at (the index i of line 98 behind each appended elevation).
dem_extract_elevation_profile(files, coords) ==
    LET relevant_tiles == find_relevant_dem_tiles(files, coords)
    IN  IF relevant_tiles = <<>> THEN DemError("No DEM tiles found for trail area")
        ELSE IF Len(coords) < 2 THEN DemError("DEM analysis failed")
        ELSE LET sample_points == SamplePoints(coords)
                 read == AllTileSamples(relevant_tiles, sample_points)
                 elevations == [k \in 1..Len(read) |-> read[k].elevation]
             IN  IF elevations = <<>> THEN DemError("No elevation data extracted")
                 ELSE [called |-> TRUE, success |-> TRUE, error |-> "",
                       elevations |-> elevations,
                       distances |-> Take(SampleDistances(coords), Len(elevations)),
                       slopes |-> [k \in 1..Len(elevations) |->
                                      IF k = 1 THEN 0
                                      ELSE (elevations[k] - elevations[k - 1]) \div SampleInterval],
                       samples |-> [k \in 1..Len(read) |-> read[k].sample]]

InitDem ==
    /\ dem_files \in SeqsOf(TileSet, 0, MaxTiles)
    /\ dem_coords \in DemTrailSet
    /\ dem_result = DemNoResult

DemExtractElevationProfile ==
    /\ ~dem_result.called
    /\ dem_result' = dem_extract_elevation_profile(dem_files, dem_coords)
    /\ UNCHANGED <<dem_files, dem_coords>>

---------------------------------------------------------------------------
(* count_rolling_hills, analyze_rolling_hills (utils/calculations.py)      *)
(*                                                                         *)
(* Elevations are whole metres and distances metres.  The rolling index    *)
(* is kept exact as the fraction num / den of hundredths.                  *)

MaxElevations == 4

\* line 52: min_prominence = 1.0; line 107: threshold = 1
MinProminence == 1
ChangeThreshold == 1

\* line 115: total_distance = ... else 1 (km)
DefaultTotalDistance == 1000

RollingElevationSet == {100, 101, 105}

RollingDistanceArgs ==
    { <<>>, <<0>>, <<0, 500>>, <<0, 0, 0>>, <<0, 500, 1000>>, <<0, 500, 1000, 1500>> }

\* a peak or valley wherever the point is not lower (not higher) than its
\* neighbours
count_rolling_hills_nonstrict(elevations) ==
    IF Len(elevations) < 3 THEN 0
    ELSE Cardinality({i \in 2..(Len(elevations) - 1) :
            \/ elevations[i] >= elevations[i - 1] /\ elevations[i] >= elevations[i + 1]
            \/ elevations[i] <= elevations[i - 1] /\ elevations[i] <= elevations[i + 1]})

\* significance judged on the elevation of the point itself instead of on
\* its difference to a neighbour
count_rolling_hills_absolute(elevations) ==
    IF Len(elevations) < 3 THEN 0
    ELSE Cardinality({i \in 2..(Len(elevations) - 1) :
            /\ elevations[i] >= MinProminence
            /\ \/ elevations[i] > elevations[i - 1] /\ elevations[i] > elevations[i + 1]
               \/ elevations[i] < elevations[i - 1] /\ elevations[i] < elevations[i + 1]})

\* lines 29-82: peaks plus valleys among the interior points
count_rolling_hills(elevations) ==
    IF Len(elevations) < 3 THEN 0
    ELSE LET peaks ==
                 {i \in 2..(Len(elevations) - 1) :
                     /\ elevations[i] > elevations[i - 1]
                     /\ elevations[i] > elevations[i + 1]
                     /\ \/ elevations[i] - elevations[i - 1] >= MinProminence
                        \/ elevations[i] - elevations[i + 1] >= MinProminence}
             valleys ==
                 {i \in 2..(Len(elevations) - 1) :
                     /\ ~(elevations[i] > elevations[i - 1] /\ elevations[i] > elevations[i + 1])
                     /\ elevations[i] < elevations[i - 1]
                     /\ elevations[i] < elevations[i + 1]
                     /\ \/ elevations[i - 1] - elevations[i] >= MinProminence
                        \/ elevations[i + 1] - elevations[i] >= MinProminence}
         IN  Cardinality(peaks) + Cardinality(valleys)

\* lines 108-112: the absolute changes of at least the threshold, in order
RECURSIVE SignificantChanges(_, _)
SignificantChanges(elevations, i) ==
    IF i > Len(elevations) THEN <<>>
    ELSE LET change == elevations[i] - elevations[i - 1]
         IN  (IF Abs(change) >= ChangeThreshold THEN <<Abs(change)>> ELSE <<>>)
                 \o SignificantChanges(elevations, i + 1)

RECURSIVE SumSeq(_)
SumSeq(s) == IF s = <<>> THEN 0 ELSE Head(s) + SumSeq(Tail(s))

\* lines 85-142.  rolling_index = 0.6 * changes_per_km + 0.4 * avg / 20,
\* in hundredths: 60000 * n / total_distance + 2 * sum / n
analyze_rolling_hills(elevations, distances) ==
    IF Len(elevations) < 3
    THEN [rolling_index |-> [num |-> 0, den |-> 1], hills_count |-> 0]
    ELSE LET hills_count == count_rolling_hills(elevations)
             significant_changes == SignificantChanges(elevations, 2)
             n == Len(significant_changes)
             total_distance == IF distances # <<>> THEN distances[Len(distances)]
                               ELSE DefaultTotalDistance
             changes_per_km == IF total_distance > 0
                               THEN [num |-> 60000 * n, den |-> total_distance]
                               ELSE [num |-> 0, den |-> 1]
             avg_change_size == IF n > 0
                                THEN [num |-> 2 * SumSeq(significant_changes), den |-> n]
                                ELSE [num |-> 0, den |-> 1]
         IN  [rolling_index |->
                  [num |-> changes_per_km.num * avg_change_size.den
                             + avg_change_size.num * changes_per_km.den,
                   den |-> changes_per_km.den * avg_change_size.den],
              hills_count |-> hills_count]

---------------------------------------------------------------------------
(* POST /upload-gpx (routes/uploads.py, upload_gpx)                        *)
(*                                                                         *)
(* A track point is [pos, ele]: pos is its position in metres along a      *)
(* line (the haversine distance of two points is the difference of their   *)
(* positions), ele its elevation in metres or NoneEle.  Distances are      *)
(* kept in metres (distance_km * 1000), slopes in hundredths of a percent. *)

\* Largest number of tracks of a file, of segments of a track, of points
\* of a segment, and of upload requests
MaxTracks == 2
MaxSegments == 2
MaxSegPoints == 2
MaxUploads == 2

\* point.elevation is None
NoneEle == -1

\* line 264: start points closer than this many metres are duplicates
DuplicateRadius == 100

SegmentSet == { <<>>, <<[pos |-> 150, ele |-> NoneEle]>>,
                <<[pos |-> 0, ele |-> 100], [pos |-> 10000, ele |-> 110]>> }

TrackSet == SeqsOf({g \in SegmentSet : Len(g) <= MaxSegPoints}, 0, MaxSegments)

\* File names of the requests, and the trail name line 49 derives from
\* each: filename.replace(".gpx", "").replace("_", " ").title()
FilenameSet == {"creek_loop.gpx", "Creek Loop.gpx", "ridge.gpx", "notes.txt"}

TrailName(filename) ==
    CASE filename = "creek_loop.gpx" -> "Creek Loop"
      [] filename = "Creek Loop.gpx" -> "Creek Loop"
      [] filename = "ridge.gpx" -> "Ridge"
      [] OTHER -> "Notes.Txt"

\* line 40: file.filename.lower().endswith(".gpx")
IsGpxFilename(filename) == filename # "notes.txt"

\* Uploaded files: well_formed is FALSE for content gpxpy cannot parse
GpxFiles ==
    [filename : FilenameSet, well_formed : {TRUE}, tracks : SeqsOf(TrackSet, 0, MaxTracks)]
    \cup [filename : FilenameSet, well_formed : {FALSE}, tracks : {<<>>}]

\* round(x, 2) of a value in km, on metres: nearest multiple of unit, ties
\* to the even multiple
RoundHalfEven(n, unit) ==
    LET q == n \div unit
        r == n % unit
    IN  IF 2 * r < unit THEN q * unit
        ELSE IF 2 * r > unit THEN (q + 1) * unit
        ELSE IF q % 2 = 0 THEN q * unit ELSE (q + 1) * unit

\* lines 62, 78: point.elevation or 0
EleOrZero(p) == IF p.ele = NoneEle THEN 0 ELSE p.ele

\* lines 60-89: one segment.  acc = [coords, elevations, distances, slopes]
RECURSIVE SegmentLoop(_, _, _)
SegmentLoop(points, i, acc) ==
    IF i > Len(points) THEN acc
    ELSE LET point == points[i]
             withPoint == [acc EXCEPT !.coords = Append(@, point.pos),
                                      !.elevations = Append(@, EleOrZero(point))]
         IN  IF i > 1
             THEN LET prev_point == points[i - 1]
                      dist_m == Abs(point.pos - prev_point.pos)
                      elev_diff == EleOrZero(point) - EleOrZero(prev_point)
                      gradient == IF dist_m > 0
                                  THEN RoundHalfEven(elev_diff * 10000, dist_m) \div dist_m
                                  ELSE 0
                  IN  SegmentLoop(points, i + 1,
                          [withPoint EXCEPT
                              !.distances = Append(@, @[Len(@)] + dist_m),
                              !.slopes = Append(@, gradient)])
             ELSE SegmentLoop(points, i + 1, withPoint)

\* lines 58-59: for track in gpx.tracks: for segment in track.segments
RECURSIVE Segments(_)
Segments(tracks) ==
    IF tracks = <<>> THEN <<>> ELSE Head(tracks) \o Segments(Tail(tracks))

RECURSIVE SegmentsLoop(_, _)
SegmentsLoop(segments, acc) ==
    IF segments = <<>> THEN acc
    ELSE SegmentsLoop(Tail(segments), SegmentLoop(Head(segments), 1, acc))

\* lines 52-89
AnalyzeGpx(tracks) ==
    SegmentsLoop(Segments(tracks),
                 [coords |-> <<>>, elevations |-> <<>>, distances |-> <<0>>, slopes |-> <<0>>])

\* lines 128-136: zip(distances, elevations), distance rounded to 0.01 km
ElevationProfileData(a) ==
    [i \in 1..Min2(Len(a.distances), Len(a.elevations)) |->
        [distance |-> RoundHalfEven(a.distances[i], 10),
         elevation |-> a.elevations[i],
         slope |-> IF i <= Len(a.slopes) THEN a.slopes[i] ELSE 0]]

\* db_client.table(...).delete().eq("id", id) / .eq("trail_id", id)
RECURSIVE WithoutId(_, _)
WithoutId(rows, id) ==
    IF rows = <<>> THEN <<>>
    ELSE (IF Head(rows).id = id THEN <<>> ELSE <<Head(rows)>>) \o WithoutId(Tail(rows), id)

RECURSIVE WithoutTrail(_, _)
WithoutTrail(rows, tid) ==
    IF rows = <<>> THEN <<>>
    ELSE (IF Head(rows).trail_id = tid THEN <<>> ELSE <<Head(rows)>>) \o WithoutTrail(Tail(rows), tid)

\* lines 204-244: exact-name duplicate.  Returns [status, trails, lidar, dup]
NameDuplicate(db_trails, db_lidar, trail_name, overwrite_bool) ==
    LET existing == {i \in 1..Len(db_trails) : db_trails[i].name = trail_name}
    IN  IF existing = {}
        THEN [status |-> 0, trails |-> db_trails, lidar |-> db_lidar, dup |-> NoneId]
        ELSE IF ~overwrite_bool
        THEN [status |-> 409, trails |-> db_trails, lidar |-> db_lidar, dup |-> NoneId]
        ELSE LET duplicate_trail_id == db_trails[SetMin(existing)].id
             IN  [status |-> 0,
                  trails |-> WithoutId(db_trails, duplicate_trail_id),
                  lidar |-> WithoutTrail(db_lidar, duplicate_trail_id),
                  dup |-> duplicate_trail_id]

\* the start-point check left out
StartDuplicates_unchecked(rows, st, start, overwrite_bool, dup) == st

\* lines 246-306: trails starting within 100 m.  The rows iterated are those
\* selected at line 249, after the name duplicate was deleted.
RECURSIVE StartDuplicates(_, _, _, _, _)
StartDuplicates(rows, st, start, overwrite_bool, dup) ==
    IF rows = <<>> \/ st.status # 0 THEN st
    ELSE LET existing_trail == Head(rows)
             near == /\ Len(existing_trail.coordinates) > 0
                     /\ Abs(start - existing_trail.coordinates[1]) < DuplicateRadius
         IN  IF ~near THEN StartDuplicates(Tail(rows), st, start, overwrite_bool, dup)
             ELSE IF ~overwrite_bool
             THEN [st EXCEPT !.status = 409]
             ELSE IF existing_trail.id # dup
             THEN StartDuplicates(Tail(rows),
                      [st EXCEPT !.trails = WithoutId(@, existing_trail.id),
                                 !.lidar = WithoutTrail(@, existing_trail.id)],
                      start, overwrite_bool, dup)
             ELSE StartDuplicates(Tail(rows), st, start, overwrite_bool, dup)

\* line 97
TotalDistance(a) == IF Len(a.distances) > 1 THEN a.distances[Len(a.distances)] ELSE 0

\* lines 98-105: sum of the positive steps
RECURSIVE ElevationGain(_)
ElevationGain(elevations) ==
    IF Len(elevations) < 2 THEN 0
    ELSE Max2(0, elevations[2] - elevations[1]) + ElevationGain(Tail(elevations))

\* lines 117-120: round(rolling_hills_index, 2), in hundredths
RollingHillsIndex(a) ==
    LET rolling_index == analyze_rolling_hills(a.elevations, a.distances).rolling_index
    IN  RoundHalfEven(rolling_index.num, rolling_index.den) \div rolling_index.den

\* a difficulty score of 1 point
ScorePoint == 10000

\* lines 182-191 (and trails.py lines 32-36): min(distance / 10, 1) * 3
\* + min(elevation_gain / 1000, 1) * 4 + min(rolling_hills_index / 50, 1) * 3,
\* of a distance in metres, a gain in metres and an index in hundredths
DifficultyScore(distance, elevation_gain, rolling_hills_index) ==
    3 * Min2(distance, 10000) + 40 * Min2(elevation_gain, 1000)
        + 6 * Min2(rolling_hills_index, 5000)

\* lines 193-200 (and trails.py lines 39-46)
DifficultyLevel(difficulty_score) ==
    IF difficulty_score <= 3 * ScorePoint THEN "Easy"
    ELSE IF difficulty_score <= 6 * ScorePoint THEN "Moderate"
    ELSE IF difficulty_score <= 8 * ScorePoint THEN "Hard"
    ELSE "Extreme"

\* round(difficulty_score, 1), in tenths of a point
RoundedScore(difficulty_score) ==
    RoundHalfEven(difficulty_score, ScorePoint \div 10) \div (ScorePoint \div 10)

\* lines 321-366: the row inserted.  distance is in metres (a multiple of
\* 10: two decimals of a km), rolling_hills_index in hundredths,
\* difficulty_score in tenths
NewTrailData(id, trail_name, a) ==
    LET difficulty_score ==
            DifficultyScore(TotalDistance(a), ElevationGain(a.elevations), RollingHillsIndex(a))
    IN  [id |-> id, name |-> trail_name, coordinates |-> a.coords,
         elevation_profile |-> ElevationProfileData(a),
         distance |-> RoundHalfEven(TotalDistance(a), 10),
         elevation_gain |-> ElevationGain(a.elevations),
         rolling_hills_index |-> RollingHillsIndex(a),
         difficulty_score |-> RoundedScore(difficulty_score),
         difficulty_level |-> DifficultyLevel(difficulty_score)]

\* lines 18-395.  Returns [status, trails, lidar, inserted]
upload_gpx(db_trails, db_lidar, id, file, overwrite_bool, insert_ok) ==
    LET unchanged(code) == [status |-> code, trails |-> db_trails, lidar |-> db_lidar, inserted |-> FALSE]
    IN  IF ~IsGpxFilename(file.filename) THEN unchanged(400)
        ELSE IF ~file.well_formed THEN unchanged(500)
        ELSE LET a == AnalyzeGpx(file.tracks)
                 trail_name == TrailName(file.filename)
             IN  IF a.coords = <<>> THEN unchanged(400)
                 ELSE LET byName == NameDuplicate(db_trails, db_lidar, trail_name, overwrite_bool)
                          byStart == StartDuplicates(byName.trails, byName, a.coords[1],
                                                     overwrite_bool, byName.dup)
                      IN  IF byName.status # 0 THEN unchanged(409)
                          ELSE IF byStart.status # 0
                          THEN [status |-> 409, trails |-> byStart.trails,
                                lidar |-> byStart.lidar, inserted |-> FALSE]
                          ELSE IF ~insert_ok
                          THEN [status |-> 500, trails |-> byStart.trails,
                                lidar |-> byStart.lidar, inserted |-> FALSE]
                          ELSE [status |-> 200,
                                trails |-> Append(byStart.trails, NewTrailData(id, trail_name, a)),
                                lidar |-> byStart.lidar, inserted |-> TRUE]

InitUpload ==
    /\ trails = <<>>
    /\ lidar_table = <<>>
    /\ next_id = 1
    /\ next_lidar_id = 1
    /\ upload_response = [status |-> 0, inserted |-> FALSE]
    /\ trails_response = [status |-> 0, trails |-> <<>>]

\* one request with a file of the set files
UploadGpxOf(files) ==
    /\ next_id <= MaxUploads
    /\ \E file \in files, overwrite_bool \in BOOLEAN, insert_ok \in BOOLEAN :
          LET out == upload_gpx(trails, lidar_table, next_id, file, overwrite_bool, insert_ok)
          IN  /\ trails' = out.trails
              /\ lidar_table' = out.lidar
              /\ upload_response' = [status |-> out.status, inserted |-> out.inserted]
              /\ next_id' = next_id + 1
              /\ UNCHANGED <<next_lidar_id, trails_response>>

UploadGpx == UploadGpxOf(GpxFiles)

\* trails.py lines 25-49: the difficulty of a row recomputed from its
\* stored distance, elevation_gain and rolling_hills_index
CorrectedTrail(row) ==
    LET difficulty_score ==
            DifficultyScore(row.distance, row.elevation_gain, row.rolling_hills_index)
    IN  [row EXCEPT !.difficulty_level = DifficultyLevel(difficulty_score),
                    !.difficulty_score = RoundedScore(difficulty_score)]

\* trails.py lines 12-54.  select_ok is FALSE when the select raises
get_trails(db_trails, select_ok) ==
    IF ~select_ok THEN [status |-> 500, trails |-> <<>>]
    ELSE [status |-> 200,
          trails |-> [i \in 1..Len(db_trails) |-> CorrectedTrail(db_trails[i])]]

GetTrails ==
    /\ \E select_ok \in BOOLEAN :
          trails_response' = get_trails(trails, select_ok)
    /\ UNCHANGED <<trails, lidar_table, next_id, next_lidar_id, upload_response>>

---------------------------------------------------------------------------
(* The on-disk point-cloud cache (utils/lidar_extraction.py,               *)
(* _get_local_file_path and _download_lidar_file)                          *)
(*                                                                         *)
(* Requests for one record that has a file_url and no local file_path.     *)
(* The remote file is FileChunks chunks long.  The file at the cache path  *)
(* is [exists, size, valid]: size is its length in chunks and valid the    *)
(* set of chunk positions that hold the bytes of the remote file.  Each    *)
(* request is at one position of the code:                                 *)
(*   "idle"   before _get_local_file_path                                  *)
(*   "get"    os.path.exists was false, before requests.get                *)
(*   "open"   response received, before open(local_cache_path, "wb")       *)
(*   "write"  inside the iter_content loop; offset chunks written          *)
(*   "read"   a path was returned, before laspy.read                       *)
(*   "done"   finished                                                     *)

\* Number of overlapping requests and of chunks of the remote file
MaxRequests == 2
FileChunks == 2

Requests == 1..MaxRequests

NoFile == [exists |-> FALSE, size |-> 0, valid |-> {}]

IdleRequest ==
    [pc |-> "idle", offset |-> 0, cache_hit |-> FALSE, failed |-> FALSE,
     path |-> FALSE, read_complete |-> FALSE]

\* the file at the cache path holds the whole remote file
Complete(f) == f.exists /\ f.size = FileChunks /\ f.valid = 1..FileChunks

InitCache ==
    /\ cache_file = NoFile
    /\ request = [r \in Requests |-> IdleRequest]

\* lines 88-91: if os.path.exists(local_cache_path): return local_cache_path
CheckExists(r) ==
    /\ request[r].pc = "idle"
    /\ request' = [request EXCEPT ![r] =
                     IF cache_file.exists
                     THEN [@ EXCEPT !.pc = "read", !.cache_hit = TRUE, !.path = TRUE]
                     ELSE [@ EXCEPT !.pc = "get"]]
    /\ UNCHANGED cache_file

\* lines 96-98: requests.get(...); response.raise_for_status().  A failure
\* is raised to _get_local_file_path, which returns None (lines 150-152);
\* extract_elevation_profile then reports the file not accessible.
Get(r) ==
    /\ request[r].pc = "get"
    /\ \E ok \in BOOLEAN :
          request' = [request EXCEPT ![r] =
                        IF ok THEN [@ EXCEPT !.pc = "open"]
                        ELSE [@ EXCEPT !.pc = "done", !.failed = TRUE]]
    /\ UNCHANGED cache_file

\* line 103: open(local_cache_path, "wb") creates or truncates the file
Open(r) ==
    /\ request[r].pc = "open"
    /\ cache_file' = [exists |-> TRUE, size |-> 0, valid |-> {}]
    /\ request' = [request EXCEPT ![r] = [@ EXCEPT !.pc = "write", !.offset = 0]]

\* lines 104-106: f.write(chunk) at this request's own file offset
WriteChunk(r) ==
    /\ request[r].pc = "write"
    /\ request[r].offset < FileChunks
    /\ LET at == request[r].offset + 1
       IN  /\ cache_file' = [cache_file EXCEPT !.size = Max2(@, at),
                                               !.valid = @ \cup {at}]
           /\ request' = [request EXCEPT ![r] = [@ EXCEPT !.offset = at]]

\* line 104: iter_content raises while streaming; lines 113-115 re-raise
\* and nothing removes the file
StreamError(r) ==
    /\ request[r].pc = "write"
    /\ request[r].offset < FileChunks
    /\ request' = [request EXCEPT ![r] = [@ EXCEPT !.pc = "done", !.failed = TRUE]]
    /\ UNCHANGED cache_file

\* lines 108-111: the with block closes the file; return local_cache_path
ReturnPath(r) ==
    /\ request[r].pc = "write"
    /\ request[r].offset = FileChunks
    /\ request' = [request EXCEPT ![r] = [@ EXCEPT !.pc = "read", !.path = TRUE]]
    /\ UNCHANGED cache_file

\* lines 453-464: os.path.exists(las_file_path) and laspy.read(las_file_path)
ReadFile(r) ==
    /\ request[r].pc = "read"
    /\ request' = [request EXCEPT ![r] =
                     [@ EXCEPT !.pc = "done", !.read_complete = Complete(cache_file)]]
    /\ UNCHANGED cache_file

---------------------------------------------------------------------------
(* GET /trail/{trail_id}/elevation-sources (routes/analysis.py,            *)
(* get_trail_elevation_sources)                                            *)
(*                                                                         *)
(* Elevations are integers in units of 1/1200 m: the inputs are whole      *)
(* centimetres (multiples of 12), so the mean of up to four of them is     *)
(* exact, and round(x, 2) is rounding to a multiple of 12.  Distances are  *)
(* in millimetres (distance_km * 10^6).  Coordinates are positions in      *)
(* metres along a line.  Slopes are in hundredths of a percent.            *)

\* Largest number of trail coordinates and of data rows of a survey sheet
MaxCoords == 2
MaxRows == 2

Metre == 100 * 12

\* line 1013: abs(elevation_offset) > 0.1
AlignTolerance == 120

\* line 811: abs(elevation_offset) >= 5.0
XlsxAlignThreshold == 6000

\* line 723: tolerance = 0.001 km; line 744: max(median_gap * 10, 0.1) km
DedupeTolerance == 1000
MinGapThreshold == 100000

\* line 1019: values random.uniform(-1.1, 1.1) can return
NoiseSet == {-1320, 0}

\* keys of the sources dictionary in the order the handler inserts them
SourceOrder == <<"GPX", "LiDAR", "XLSX", "QSpatial">>
Slots == {"GPX", "LiDAR", "XLSX", "QSpatial", "Overall"}

\* Rows of the trails table the request can address.  The fourth has the
\* elevation_profile of a two-segment upload: shorter than coordinates.
EsTrailSet ==
    { t \in
    { [found |-> FALSE, coordinates |-> <<>>, gpx |-> <<>>],
      [found |-> TRUE, coordinates |-> <<>>, gpx |-> <<>>],
      [found |-> TRUE, coordinates |-> <<0>>, gpx |-> <<100 * Metre>>],
      [found |-> TRUE, coordinates |-> <<0>>, gpx |-> <<>>],
      [found |-> TRUE, coordinates |-> <<0, 100>>, gpx |-> <<100 * Metre>>],
      [found |-> TRUE, coordinates |-> <<0, 100>>, gpx |-> <<100 * Metre, 104 * Metre>>],
      [found |-> TRUE, coordinates |-> <<0, 100>>, gpx |-> <<>>],
      [found |-> TRUE, coordinates |-> <<0, 100, 200>>,
       gpx |-> <<100 * Metre, 104 * Metre, 103 * Metre>>] } :
      Len(t.coordinates) <= MaxCoords }

\* What lidar_extractor is and returns for n coordinates: no extractor, an
\* exception, success False, the absolute branch (at most one elevation
\* per coordinate, no distances), the relative branch (one sample per
\* coordinate with distances of the cloud's own extent)
LidarOutcomes(n) ==
    { [kind |-> k, elevations |-> <<>>, distances |-> <<>>, relative |-> FALSE] :
          k \in {"none", "raise", "fail"} }
    \cup { [kind |-> "ok", elevations |-> s, distances |-> <<>>, relative |-> FALSE] :
          s \in {t \in { <<>>, <<120060>>, <<120060, 104 * Metre>>, <<103 * Metre, 105 * Metre>> } :
                     Len(t) <= n} }
    \cup { [kind |-> "ok", elevations |-> Take(<<2 * Metre, 6 * Metre, 4 * Metre>>, n),
            distances |-> Take(<<0, 30000, 60000>>, n), relative |-> TRUE] }

\* Rows of the first sheet: d is the distance cell times 1000, z the
\* elevation cell, numeric is FALSE when a cell is empty or not a number.
\* The first row of a sheet is the header row.
HeaderRow == [d |-> 0, z |-> 0, numeric |-> FALSE]

DataRowSet ==
    { [d |-> 0, z |-> 120048, numeric |-> TRUE],
      [d |-> 50000, z |-> 102 * Metre, numeric |-> TRUE],
      [d |-> 200, z |-> 110 * Metre, numeric |-> TRUE],
      [d |-> 0, z |-> 0, numeric |-> FALSE] }

SheetSet == {<<>>} \cup { <<HeaderRow>> \o s : s \in SeqsOf(DataRowSet, 0, MaxRows) }

\* Outcome of the xlsx_files query, of the download and of load_workbook
XlsxOutcomes ==
    { [kind |-> k, rows |-> <<>>] : k \in {"db_error", "no_record", "http_error", "parse_error"} }
    \cup { [kind |-> "sheet", rows |-> s] : s \in SheetSet }

\* What dem_analyzer is and returns: no analyzer, an exception, an error
\* dictionary, or elevations sampled every 10 m (any number of them)
DemOutcomes ==
    { [kind |-> k, elevations |-> <<>>] : k \in {"none", "raise", "fail"} }
    \cup { [kind |-> "ok", elevations |-> s] :
             s \in { <<101 * Metre>>, <<120060, 102 * Metre>>,
                     <<100 * Metre, 101 * Metre, 102 * Metre>> } }

Unavailable(err) ==
    [available |-> FALSE, error |-> err, elevations |-> <<>>, distances |-> <<>>,
     has_slopes |-> FALSE, slopes |-> <<>>]

Available(elevs, dists) ==
    [available |-> TRUE, error |-> "", elevations |-> elevs, distances |-> dists,
     has_slopes |-> FALSE, slopes |-> <<>>]

\* lines 471-497
RECURSIVE CumulativeDistance(_, _)
CumulativeDistance(coordinates, i) ==
    IF i <= 1 THEN 0
    ELSE CumulativeDistance(coordinates, i - 1)
             + Abs(coordinates[i] - coordinates[i - 1]) * 1000

DistancesKm(coordinates) ==
    [i \in 1..Len(coordinates) |-> CumulativeDistance(coordinates, i)]

Shift(elevs, offset) == [i \in 1..Len(elevs) |-> elevs[i] + offset]

\* lines 503-538
GpxSource(t, distances_km) ==
    IF t.gpx # <<>> /\ Len(t.gpx) = Len(t.coordinates)
    THEN Available(t.gpx, distances_km)
    ELSE Unavailable("No elevation data in GPX file")

\* lines 540-605
LidarSource(lidar, gpx, distances_km) ==
    CASE lidar.kind = "none" -> Unavailable("LiDAR extractor not initialized")
      [] lidar.kind = "raise" -> Unavailable("exception")
      [] lidar.kind = "fail" -> Unavailable("No matching LiDAR file found")
      [] OTHER ->
           LET lidar_elevations == lidar.elevations
               lidar_distances == IF lidar.distances # <<>> THEN lidar.distances
                                  ELSE Take(distances_km, Len(lidar_elevations))
           IN  IF lidar.relative /\ gpx.available /\ gpx.elevations # <<>>
                  /\ lidar_elevations # <<>>
               THEN Available(Shift(lidar_elevations,
                                    gpx.elevations[1] - lidar_elevations[1]),
                              lidar_distances)
               ELSE Available(lidar_elevations, lidar_distances)

\* lines 879-939
DemSource(dem, coordinates, distances_km) ==
    CASE dem.kind = "none" -> Unavailable("DEM analyzer not initialized")
      [] dem.kind = "raise" -> Unavailable("exception")
      [] dem.kind = "fail" -> Unavailable("DEM extraction failed")
      [] OTHER ->
           LET max_points == Min2(Len(dem.elevations),
                                  Min2(Len(coordinates), Len(distances_km)))
           IN  Available(Take(dem.elevations, max_points), Take(distances_km, max_points))

\* line 710: dn / 1000.0 if dn > 10 else dn, as millimetres
RowDistanceKm(row) == IF row.d > 10000 THEN row.d ELSE row.d * 1000

\* lines 683-712: the numeric rows after the header, as (distance, elevation)
RECURSIVE NumericRows(_)
NumericRows(rows) ==
    IF rows = <<>> THEN <<>>
    ELSE (IF Head(rows).numeric
          THEN <<[distance |-> RowDistanceKm(Head(rows)), elevation |-> Head(rows).z]>>
          ELSE <<>>) \o NumericRows(Tail(rows))

\* line 718: list.sort(key=distance), which keeps equal keys in row order
RECURSIVE InsertByDistance(_, _)
InsertByDistance(sorted, p) ==
    IF sorted = <<>> THEN <<p>>
    ELSE LET last == sorted[Len(sorted)]
         IN  IF last.distance <= p.distance THEN Append(sorted, p)
             ELSE Append(InsertByDistance(SubSeq(sorted, 1, Len(sorted) - 1), p), last)

RECURSIVE SortByDistance(_)
SortByDistance(data) ==
    IF data = <<>> THEN <<>>
    ELSE InsertByDistance(SortByDistance(SubSeq(data, 1, Len(data) - 1)), data[Len(data)])

\* lines 721-729
RECURSIVE RemoveDuplicates(_, _)
RemoveDuplicates(combined_data, cleaned_data) ==
    IF combined_data = <<>> THEN cleaned_data
    ELSE LET p == Head(combined_data)
         IN  IF cleaned_data = <<>>
                \/ p.distance > cleaned_data[Len(cleaned_data)].distance + DedupeTolerance
             THEN RemoveDuplicates(Tail(combined_data), Append(cleaned_data, p))
             ELSE RemoveDuplicates(Tail(combined_data), cleaned_data)

\* lines 734-738
Gaps(cleaned_data) ==
    [i \in 1..(Len(cleaned_data) - 1) |->
        cleaned_data[i + 1].distance - cleaned_data[i].distance]

RECURSIVE InsertInt(_, _)
InsertInt(sorted, g) ==
    IF sorted = <<>> THEN <<g>>
    ELSE IF sorted[Len(sorted)] <= g THEN Append(sorted, g)
    ELSE Append(InsertInt(SubSeq(sorted, 1, Len(sorted) - 1), g), sorted[Len(sorted)])

RECURSIVE SortInts(_)
SortInts(s) ==
    IF s = <<>> THEN <<>>
    ELSE InsertInt(SortInts(SubSeq(s, 1, Len(s) - 1)), s[Len(s)])

\* lines 741-744: max(np.median(gaps) * 10, 0.1)
GapThreshold(gaps) ==
    LET sorted == SortInts(gaps)
        n == Len(sorted)
        median_times_10 == IF n % 2 = 1 THEN 10 * sorted[(n + 1) \div 2]
                           ELSE 5 * (sorted[n \div 2] + sorted[n \div 2 + 1])
    IN  Max2(median_times_10, MinGapThreshold)

\* the cut placed one row late, after the abnormal gap
CutAtGapAfterGap(cleaned_data) ==
    IF Len(cleaned_data) <= 1 THEN cleaned_data
    ELSE LET gaps == Gaps(cleaned_data)
             large == {i \in 1..Len(gaps) : gaps[i] > GapThreshold(gaps)}
         IN  IF large = {} THEN cleaned_data ELSE Take(cleaned_data, SetMin(large) + 1)

\* lines 732-762
CutAtGap(cleaned_data) ==
    IF Len(cleaned_data) <= 1 THEN cleaned_data
    ELSE LET gaps == Gaps(cleaned_data)
             large == {i \in 1..Len(gaps) : gaps[i] > GapThreshold(gaps)}
         IN  IF large = {} THEN cleaned_data ELSE Take(cleaned_data, SetMin(large))

\* lines 769-786
RECURSIVE WithinTrail(_, _)
WithinTrail(data, trail_distance) ==
    IF data = <<>> THEN <<>>
    ELSE (IF Head(data).distance <= trail_distance THEN <<Head(data)>> ELSE <<>>)
             \o WithinTrail(Tail(data), trail_distance)

TruncateToTrail(data, trail_distance) ==
    IF data = <<>> THEN data
    ELSE IF data[Len(data)].distance > trail_distance
    THEN LET filtered_data == WithinTrail(data, trail_distance)
         IN  IF filtered_data # <<>> THEN filtered_data ELSE data
    ELSE data

\* lines 714-793
CleanXlsx(rows, trail_distance) ==
    TruncateToTrail(CutAtGap(RemoveDuplicates(SortByDistance(NumericRows(Tail(rows))), <<>>)),
                    trail_distance)

\* lines 607-877.  present is FALSE when the handler leaves the key unset
XlsxSource(xlsx, gpx, distances_km) ==
    LET entry(e) == [present |-> TRUE, entry |-> e]
    IN  CASE xlsx.kind = "db_error" -> entry(Unavailable("Database error"))
          [] xlsx.kind = "no_record" -> entry(Unavailable("No XLSX file uploaded for this trail"))
          [] xlsx.kind = "http_error" -> entry(Unavailable("Failed to download XLSX"))
          [] xlsx.kind = "parse_error" -> entry(Unavailable("XLSX parsing error"))
          [] OTHER ->
               IF Len(xlsx.rows) > 1
               THEN LET data == CleanXlsx(xlsx.rows, distances_km[Len(distances_km)])
                        xlsx_elevations == [i \in 1..Len(data) |-> data[i].elevation]
                        xlsx_distances == [i \in 1..Len(data) |-> data[i].distance]
                        elevation_offset == gpx.elevations[1] - xlsx_elevations[1]
                    IN  IF data = <<>> THEN entry(Unavailable("No numeric rows found in XLSX"))
                        ELSE IF gpx.available /\ Abs(elevation_offset) >= XlsxAlignThreshold
                        THEN entry(Available(Shift(xlsx_elevations, elevation_offset),
                                             xlsx_distances))
                        ELSE entry(Available(xlsx_elevations, xlsx_distances))
               ELSE [present |-> FALSE, entry |-> Unavailable("")]

\* line 942: the available entries, in the order of insertion
RECURSIVE AvailableSources(_, _)
AvailableSources(order, sources) ==
    IF order = <<>> THEN <<>>
    ELSE (IF Head(order) \in DOMAIN sources /\ sources[Head(order)].available
          THEN <<sources[Head(order)]>> ELSE <<>>)
             \o AvailableSources(Tail(order), sources)

RECURSIVE SumAt(_, _)
SumAt(available_sources, i) ==
    IF available_sources = <<>> THEN 0
    ELSE Head(available_sources).elevations[i] + SumAt(Tail(available_sources), i)

\* lines 941-968
OverallSource(sources, distances_km) ==
    LET available_sources == AvailableSources(SourceOrder, sources)
        min_length == SetMin({Len(available_sources[k].elevations) :
                                 k \in 1..Len(available_sources)})
    IN  IF available_sources = <<>> THEN Unavailable("No elevation sources available")
        ELSE Available([i \in 1..min_length |->
                           SumAt(available_sources, i) \div Len(available_sources)],
                       Take(distances_km, min_length))

\* lines 981-995: slope in hundredths of a percent, capped at +-200 %
RECURSIVE SlopesLoop(_, _, _, _)
SlopesLoop(elevations, distances_m, i, slopes) ==
    IF i > Len(elevations) THEN slopes
    ELSE LET elev_change == elevations[i] - elevations[i - 1]
             dist_change == distances_m[i] - distances_m[i - 1]
             slope_percent ==
                 IF dist_change > 1
                 THEN Max2(-20000, Min2(20000, (elev_change * 25000) \div (3 * dist_change)))
                 ELSE IF slopes # <<>> THEN slopes[Len(slopes)] ELSE 0
         IN  SlopesLoop(elevations, distances_m, i + 1, Append(slopes, slope_percent))

\* lines 970-998
WithSlopes(source_data) ==
    IF source_data.available /\ Len(source_data.elevations) > 1
    THEN LET min_length == Min2(Len(source_data.elevations), Len(source_data.distances))
         IN  [source_data EXCEPT
                 !.has_slopes = TRUE,
                 !.slopes = <<0>> \o SlopesLoop(Take(source_data.elevations, min_length),
                                               Take(source_data.distances, min_length),
                                               2, <<>>)]
    ELSE source_data

\* lines 500-998: the sources dictionary before the baseline alignment
SourcesBeforeAlignment(t, lidar, xlsx, dem) ==
    LET distances_km == DistancesKm(t.coordinates)
        gpx == GpxSource(t, distances_km)
        x == XlsxSource(xlsx, gpx, distances_km)
        inserted == [s \in {"GPX", "LiDAR", "QSpatial"} \cup (IF x.present THEN {"XLSX"} ELSE {}) |->
                        CASE s = "GPX" -> gpx
                          [] s = "LiDAR" -> LidarSource(lidar, gpx, distances_km)
                          [] s = "XLSX" -> x.entry
                          [] OTHER -> DemSource(dem, t.coordinates, distances_km)]
        overall == OverallSource(inserted, distances_km)
    IN  [s \in DOMAIN inserted \cup {"Overall"} |->
            WithSlopes(IF s = "Overall" THEN overall ELSE inserted[s])]

\* line 1013: the sources the alignment shifts
Shifted(sources, s) ==
    /\ sources["GPX"].available
    /\ s # "GPX"
    /\ sources[s].available
    /\ sources[s].elevations # <<>>
    /\ Abs(sources["GPX"].elevations[1] - sources[s].elevations[1]) > AlignTolerance

\* the elements for which line 1019 draws a random number
NoisyCells(sources) ==
    {c \in (DOMAIN sources) \X (1..(MaxCoords + MaxRows)) :
        Shifted(sources, c[1]) /\ c[2] <= Len(sources[c[1]].elevations)}

\* lines 1000-1025
AlignSources(sources, noise) ==
    [s \in DOMAIN sources |->
        IF ~sources["GPX"].available \/ s = "GPX" \/ ~sources[s].available
           \/ sources[s].elevations = <<>>
        THEN sources[s]
        ELSE LET elevation_offset == sources["GPX"].elevations[1] - sources[s].elevations[1]
             IN  [sources[s] EXCEPT !.elevations =
                     IF Abs(elevation_offset) > AlignTolerance
                     THEN [i \in 1..Len(@) |->
                              RoundHalfEven(@[i] + elevation_offset + noise[<<s, i>>], 12)]
                     ELSE [i \in 1..Len(@) |-> RoundHalfEven(@[i], 12)]]]

NoResponse ==
    [called |-> FALSE, status |-> 0, success |-> FALSE, sources |-> <<>>, before |-> <<>>]

InitSources ==
    /\ trail \in EsTrailSet
    /\ lidar_outcome \in LidarOutcomes(Len(trail.coordinates))
    /\ xlsx_outcome \in XlsxOutcomes
    /\ dem_outcome \in DemOutcomes
    /\ response = NoResponse
    /\ second_response = NoResponse

\* lines 415-1051: the responses the handler can give, one for each draw
\* of the random numbers of line 1019.  before is the dictionary as it
\* stood at line 999.
get_trail_elevation_sources(t, lidar, xlsx, dem) ==
    IF ~t.found
    THEN {[NoResponse EXCEPT !.called = TRUE, !.status = 404]}
    ELSE IF t.coordinates = <<>>
    THEN {[NoResponse EXCEPT !.called = TRUE, !.status = 200]}
    ELSE LET before == SourcesBeforeAlignment(t, lidar, xlsx, dem)
         IN  {[called |-> TRUE, status |-> 200, success |-> TRUE,
               sources |-> AlignSources(before, noise),
               before |-> before] : noise \in [NoisyCells(before) -> NoiseSet]}

\* a request for the trail: the first one, or a second one after the first
\* with nothing changed in between
ElevationSourcesRequest(first) ==
    /\ IF first THEN ~response.called
       ELSE response.called /\ ~second_response.called
    /\ \E r \in get_trail_elevation_sources(trail, lidar_outcome, xlsx_outcome, dem_outcome) :
          IF first THEN response' = r /\ UNCHANGED second_response
          ELSE second_response' = r /\ UNCHANGED response
    /\ UNCHANGED <<trail, lidar_outcome, xlsx_outcome, dem_outcome>>

GetTrailElevationSources == ElevationSourcesRequest(TRUE)

\* the trails and outcomes of the requests that are repeated: no survey
\* file and no DEM analyzer
InitRepeat ==
    /\ trail \in EsTrailSet
    /\ lidar_outcome \in LidarOutcomes(Len(trail.coordinates))
    /\ xlsx_outcome = [kind |-> "no_record", rows |-> <<>>]
    /\ dem_outcome = [kind |-> "none", elevations |-> <<>>]
    /\ response = NoResponse
    /\ second_response = NoResponse


---------------------------------------------------------------------------
(* Calls of single functions and code sections.  call_args is the call     *)
(* (fn names the function, the other fields are its arguments) and         *)
(* call_result what it returned.                                           *)

NoCall == [fn |-> "none"]
NoReturn == [done |-> FALSE]

---------------------------------------------------------------------------
(* The survey clean-up of elevation-sources (routes/analysis.py, lines     *)
(* 714-793) on its own: sort, deduplicate, cut at an abnormal gap,         *)
(* truncate to the trail distance.                                         *)

\* Largest number of data rows of a cleaned sheet
MaxSurveyRows == 4

\* distance cells of the sheets, times 1000 (all at most 10: kilometres)
SurveyDistanceSet == {0, 2, 4, 44, 10, 20, 220}

\* total trail distances in millimetres
SurveyTrailDistances == {0, 30000, 1000000}

SurveyRows(ds) ==
    <<HeaderRow>> \o [i \in 1..Len(ds) |->
                        [d |-> ds[i], z |-> 100 * Metre + 12 * i, numeric |-> TRUE]]

SurveySheets == {SurveyRows(ds) : ds \in SeqsOf(SurveyDistanceSet, 1, MaxSurveyRows)}

\* lines 717-729: cleaned_data before the gap detection
DedupedRows(rows) == RemoveDuplicates(SortByDistance(NumericRows(Tail(rows))), <<>>)

InitSurvey ==
    /\ call_args \in [fn : {"clean_xlsx"}, rows : SurveySheets,
                      trail_distance : SurveyTrailDistances]
    /\ call_result = NoReturn

\* lines 714-793
CleanSurvey ==
    /\ call_args.fn = "clean_xlsx"
    /\ ~call_result.done
    /\ call_result' = [done |-> TRUE,
                       cleaned |-> DedupedRows(call_args.rows),
                       cut |-> CutAtGap(DedupedRows(call_args.rows)),
                       final |-> CleanXlsx(call_args.rows, call_args.trail_distance)]
    /\ UNCHANGED call_args

---------------------------------------------------------------------------
(* calculate_trail_similarity (utils/calculations.py)                      *)
(*                                                                         *)
(* A trail record holds distance in hundredths of a km, elevation_gain in  *)
(* metres, difficulty_score in tenths, rolling_hills_index and             *)
(* surface_difficulty_score in hundredths.  A closeness measure            *)
(* max(0, 1 - diff / window) is kept as the integer max(0, window - diff)  *)
(* in the unit of its field, and a similarity as an integer out of         *)
(* SimilarityOne.                                                          *)

SimilarityOne == 10000000

\* windows of the five measures in the units of their fields: 1000 (a
\* distance difference is in km), 500 m, 5 points, 0.5 and 0.5
DistanceWindow == 100000
ElevationWindow == 500
DifficultyWindow == 50
RollingWindow == 50
SurfaceWindow == 50

\* lines 185-186: trail.get("surface_difficulty_score", 1.0)
DefaultSurface == 100

MetricFields == {"distance", "elevation_gain", "difficulty_score", "rolling_hills_index"}

\* Trail records handed to the function: every combination of a few field
\* values, some with a surface score, and records that lack fields
FullTrails ==
    [distance : {200, 500, 550, 2000}, elevation_gain : {50, 200, 220, 1000, 1500},
     difficulty_score : {20, 65, 68, 90}, rolling_hills_index : {10, 50, 55, 90}]

SimilarityTrails ==
    FullTrails
    \cup [distance : {500}, elevation_gain : {200}, difficulty_score : {65},
          rolling_hills_index : {50}, surface_difficulty_score : {100, 130, 200}]
    \cup [distance : {500, 550}]
    \cup [distance : {500}, elevation_gain : {200}, difficulty_score : {65}]
    \cup {[name |-> "Ridge"]}

\* a closeness measure without the clamp at 0
closeness_unclamped(diff, window) == window - diff

\* max(0, 1 - (diff / window)), times window
closeness(diff, window) == Max2(0, window - diff)

SurfaceOf(t) ==
    IF "surface_difficulty_score" \in DOMAIN t THEN t.surface_difficulty_score
    ELSE DefaultSurface

\* lines 145-201.  A missing metric field raises KeyError.
calculate_trail_similarity(trail1, trail2) ==
    IF ~(MetricFields \subseteq DOMAIN trail1 /\ MetricFields \subseteq DOMAIN trail2)
    THEN [raised |-> TRUE, similarity |-> 0, distance_similarity |-> 0,
          elevation_similarity |-> 0, difficulty_similarity |-> 0,
          rolling_similarity |-> 0, surface_similarity |-> 0]
    ELSE LET distance_similarity ==
                 closeness(Abs(trail1.distance - trail2.distance), DistanceWindow)
             elevation_similarity ==
                 closeness(Abs(trail1.elevation_gain - trail2.elevation_gain), ElevationWindow)
             difficulty_similarity ==
                 closeness(Abs(trail1.difficulty_score - trail2.difficulty_score), DifficultyWindow)
             rolling_similarity ==
                 closeness(Abs(trail1.rolling_hills_index - trail2.rolling_hills_index), RollingWindow)
             surface_similarity ==
                 closeness(Abs(SurfaceOf(trail1) - SurfaceOf(trail2)), SurfaceWindow)
         IN  [raised |-> FALSE,
              similarity |-> 25 * distance_similarity
                               + 25 * (SimilarityOne \div (100 * ElevationWindow)) * elevation_similarity
                               + 20 * (SimilarityOne \div (100 * DifficultyWindow)) * difficulty_similarity
                               + 15 * (SimilarityOne \div (100 * RollingWindow)) * rolling_similarity
                               + 15 * (SimilarityOne \div (100 * SurfaceWindow)) * surface_similarity,
              distance_similarity |-> distance_similarity,
              elevation_similarity |-> elevation_similarity,
              difficulty_similarity |-> difficulty_similarity,
              rolling_similarity |-> rolling_similarity,
              surface_similarity |-> surface_similarity]

InitSimilarity ==
    /\ call_args \in [fn : {"calculate_trail_similarity"},
                      trail1 : SimilarityTrails, trail2 : SimilarityTrails]
    /\ call_result = NoReturn

\* the function called on the pair, on the swapped pair and on the first
\* trail with itself
CallSimilarity ==
    /\ call_args.fn = "calculate_trail_similarity"
    /\ ~call_result.done
    /\ call_result' = [done |-> TRUE,
                       ab |-> calculate_trail_similarity(call_args.trail1, call_args.trail2),
                       ba |-> calculate_trail_similarity(call_args.trail2, call_args.trail1),
                       aa |-> calculate_trail_similarity(call_args.trail1, call_args.trail1)]
    /\ UNCHANGED call_args

---------------------------------------------------------------------------
(* Calls of count_rolling_hills and analyze_rolling_hills                  *)

InitRollingHills ==
    /\ call_args \in
          [fn : {"count_rolling_hills"},
           elevations : SeqsOf(RollingElevationSet, 0, MaxElevations)]
          \cup [fn : {"analyze_rolling_hills"},
                elevations : SeqsOf(RollingElevationSet, 0, MaxElevations),
                distances : RollingDistanceArgs]
    /\ call_result = NoReturn

CountRollingHills ==
    /\ call_args.fn = "count_rolling_hills"
    /\ ~call_result.done
    /\ call_result' = [done |-> TRUE,
                       hills_count |-> count_rolling_hills(call_args.elevations)]
    /\ UNCHANGED call_args

AnalyzeRollingHills ==
    /\ call_args.fn = "analyze_rolling_hills"
    /\ ~call_result.done
    /\ LET out == analyze_rolling_hills(call_args.elevations, call_args.distances)
       IN  call_result' = [done |-> TRUE,
                           rolling_index |-> out.rolling_index,
                           hills_count |-> out.hills_count]
    /\ UNCHANGED call_args

---------------------------------------------------------------------------
(* calculate_terrain_variety (utils/terrain_analysis.py)                   *)
(*                                                                         *)
(* Elevations are whole metres.                                            *)

MaxVarietyLen == 10

\* line 57: if len(elevations) < 10
MinVarietyLen == 10

\* line 63: 100 m bands; line 67: cap at 10; lines 78, 80: bonus thresholds
BandHeight == 100
VarietyCap == 10
FrequentChange == 20
ModerateChange == 10

VarietyElevationSet == {100, 115, 200}

\* int(elev / 100) * 100, int() truncating toward zero
Band(elev) ==
    IF elev >= 0 THEN (elev \div BandHeight) * BandHeight
    ELSE -(((-elev) \div BandHeight) * BandHeight)

\* lines 70-73
elevation_changes(elevations) ==
    [i \in 1..(Len(elevations) - 1) |-> Abs(elevations[i + 1] - elevations[i])]

\* lines 47-83
calculate_terrain_variety(elevations) ==
    IF Len(elevations) < MinVarietyLen THEN 0
    ELSE LET elevation_bands == {Band(elevations[i]) : i \in 1..Len(elevations)}
             variety_score == Min2(Cardinality(elevation_bands), VarietyCap)
             changes == elevation_changes(elevations)
         IN  IF changes = <<>> THEN variety_score
             ELSE IF SumSeq(changes) > FrequentChange * Len(changes)
             THEN Min2(variety_score + 2, VarietyCap)
             ELSE IF SumSeq(changes) > ModerateChange * Len(changes)
             THEN Min2(variety_score + 1, VarietyCap)
             ELSE variety_score

InitTerrainVariety ==
    /\ call_args \in [fn : {"calculate_terrain_variety"},
                      elevations : SeqsOf(VarietyElevationSet, 0, MaxVarietyLen)]
    /\ call_result = NoReturn

CallTerrainVariety ==
    /\ call_args.fn = "calculate_terrain_variety"
    /\ ~call_result.done
    /\ call_result' = [done |-> TRUE,
                       variety_score |-> calculate_terrain_variety(call_args.elevations)]
    /\ UNCHANGED call_args

---------------------------------------------------------------------------
(* count_rolling_hills on a series and on the same series shifted          *)

\* constants added to every elevation, in metres
ShiftSet == {-101, -100, 0, 1, 1000}

\* [x + c for x in elevations]
ShiftedBy(elevations, c) == [i \in 1..Len(elevations) |-> elevations[i] + c]

InitShiftedHills ==
    /\ call_args \in [fn : {"count_rolling_hills_shifted"},
                      elevations : SeqsOf(RollingElevationSet, 0, MaxElevations),
                      c : ShiftSet]
    /\ call_result = NoReturn

\* the function called on the series and on the shifted series
CountShiftedHills ==
    /\ call_args.fn = "count_rolling_hills_shifted"
    /\ ~call_result.done
    /\ call_result' = [done |-> TRUE,
                       hills_count |-> count_rolling_hills(call_args.elevations),
                       shifted_count |->
                           count_rolling_hills(ShiftedBy(call_args.elevations, call_args.c))]
    /\ UNCHANGED call_args

---------------------------------------------------------------------------
(* The extractor's catalog across requests (routes/uploads.py              *)
(* upload_lidar_file and delete_lidar_file, routes/trails.py delete_trail, *)
(* LiDARExtractor._find_lidar_files)                                       *)
(*                                                                         *)
(* A row of the lidar_files table is [id, trail_id, filename, has_bounds,  *)
(* box]; filename is the name the file was uploaded under (the stored name *)
(* is that name behind a random prefix).  The cache directory holds no     *)
(* file, so the catalog has no legacy records.                             *)

\* Largest number of POST /upload-lidar requests
MaxLidarUploads == 2

\* GPX files of the requests of this part
CatalogGpxFiles ==
    [filename : {"creek_loop.gpx", "ridge.gpx"}, well_formed : {TRUE},
     tracks : {<<<<g>>>> : g \in SegmentSet \ {<<>>}}]

\* Files of the POST /upload-lidar requests: too_large is a file of 1 GB
\* or more, has_header is FALSE when laspy cannot open the file
LidarUploads ==
    { [filename |-> "a.las", too_large |-> FALSE, has_header |-> TRUE],
      [filename |-> "b.las", too_large |-> FALSE, has_header |-> FALSE],
      [filename |-> "a.las", too_large |-> TRUE, has_header |-> TRUE],
      [filename |-> "scan.txt", too_large |-> FALSE, has_header |-> TRUE] }

\* uploads.py line 427: file.filename.endswith(".las") or endswith(".laz")
IsLasFilename(filename) == filename # "scan.txt"

\* lidar_extraction.py lines 36-75: the records selected from the
\* lidar_files table, none when the select raises
find_lidar_files(db_lidar, select_ok) == IF select_ok THEN db_lidar ELSE <<>>

\* db_client.table("lidar_files").delete() for every row selected by
\* .ilike("filename", "%" + filename)
RECURSIVE WithoutFilename(_, _)
WithoutFilename(rows, filename) ==
    IF rows = <<>> THEN <<>>
    ELSE (IF Head(rows).filename = filename THEN <<>> ELSE <<Head(rows)>>)
             \o WithoutFilename(Tail(rows), filename)

\* uploads.py lines 612-641: the row inserted; the bounds are None when the
\* header could not be read
LidarRecord(id, file, tid) ==
    [id |-> id, trail_id |-> tid, filename |-> file.filename,
     has_bounds |-> file.has_header,
     box |-> IF file.has_header
             THEN [min_x |-> 0, max_x |-> 10, min_y |-> 0, max_y |-> 10]
             ELSE [min_x |-> 0, max_x |-> 0, min_y |-> 0, max_y |-> 0]]

\* uploads.py lines 398-687.  Returns [status, lidar, catalog]
upload_lidar_file(db_lidar, catalog, id, file, tid, overwrite_bool, storage_ok, insert_ok, select_ok) ==
    LET out(code, rows, files) == [status |-> code, lidar |-> rows, catalog |-> files]
        trail_rows == {i \in 1..Len(db_lidar) : db_lidar[i].trail_id = tid}
        name_rows == {i \in 1..Len(db_lidar) : db_lidar[i].filename = file.filename}
        after_name == IF name_rows # {} THEN WithoutFilename(db_lidar, file.filename) ELSE db_lidar
        after_trail == IF tid # NoneId /\ overwrite_bool THEN WithoutTrail(after_name, tid) ELSE after_name
        inserted == Append(after_trail, LidarRecord(id, file, tid))
    IN  IF ~IsLasFilename(file.filename) THEN out(400, db_lidar, catalog)
        ELSE IF file.too_large THEN out(413, db_lidar, catalog)
        ELSE IF tid # NoneId /\ ~overwrite_bool /\ trail_rows # {} THEN out(409, db_lidar, catalog)
        ELSE IF name_rows # {} /\ ~overwrite_bool THEN out(409, db_lidar, catalog)
        ELSE IF ~storage_ok THEN out(500, after_trail, catalog)
        ELSE IF ~insert_ok THEN out(500, after_trail, catalog)
        ELSE out(200, inserted, find_lidar_files(inserted, select_ok))

\* uploads.py lines 815-875.  Returns [status, lidar, catalog]
delete_lidar_file(db_lidar, catalog, lidar_id, select_ok) ==
    IF \A i \in 1..Len(db_lidar) : db_lidar[i].id # lidar_id
    THEN [status |-> 404, lidar |-> db_lidar, catalog |-> catalog]
    ELSE LET rows == WithoutId(db_lidar, lidar_id)
         IN  [status |-> 200, lidar |-> rows, catalog |-> find_lidar_files(rows, select_ok)]

\* trails.py lines 243-325.  Returns [status, trails, lidar, catalog]
delete_trail(db_trails, db_lidar, catalog, tid, select_ok) ==
    IF \A i \in 1..Len(db_trails) : db_trails[i].id # tid
    THEN [status |-> 404, trails |-> db_trails, lidar |-> db_lidar, catalog |-> catalog]
    ELSE LET deleted_lidar_count == Cardinality({i \in 1..Len(db_lidar) : db_lidar[i].trail_id = tid})
             rows == WithoutTrail(db_lidar, tid)
         IN  [status |-> 200, trails |-> WithoutId(db_trails, tid), lidar |-> rows,
              catalog |-> IF deleted_lidar_count > 0
                          THEN find_lidar_files(rows, select_ok) ELSE catalog]

\* POST /upload-lidar
UploadLidarFile ==
    /\ next_lidar_id <= MaxLidarUploads
    /\ \E file \in LidarUploads, tid \in NoneId..MaxUploads, overwrite_bool \in BOOLEAN,
          storage_ok \in BOOLEAN, insert_ok \in BOOLEAN, select_ok \in BOOLEAN :
          LET out == upload_lidar_file(lidar_table, lidar_files, next_lidar_id, file, tid,
                                       overwrite_bool, storage_ok, insert_ok, select_ok)
          IN  /\ lidar_table' = out.lidar
              /\ lidar_files' = out.catalog
              /\ upload_response' = [status |-> out.status, inserted |-> out.status = 200]
              /\ next_lidar_id' = next_lidar_id + 1
    /\ UNCHANGED <<trails, next_id, trails_response>>

\* DELETE /lidar-files/{lidar_id}
DeleteLidarFile ==
    /\ \E lidar_id \in 1..MaxLidarUploads, select_ok \in BOOLEAN :
          LET out == delete_lidar_file(lidar_table, lidar_files, lidar_id, select_ok)
          IN  /\ lidar_table' = out.lidar
              /\ lidar_files' = out.catalog
              /\ upload_response' = [status |-> out.status, inserted |-> FALSE]
    /\ UNCHANGED <<trails, next_id, next_lidar_id, trails_response>>

\* DELETE /trail/{trail_id}
DeleteTrail ==
    /\ \E tid \in 1..MaxUploads, select_ok \in BOOLEAN :
          LET out == delete_trail(trails, lidar_table, lidar_files, tid, select_ok)
          IN  /\ trails' = out.trails
              /\ lidar_table' = out.lidar
              /\ lidar_files' = out.catalog
              /\ upload_response' = [status |-> out.status, inserted |-> FALSE]
    /\ UNCHANGED <<next_id, next_lidar_id, trails_response>>

---------------------------------------------------------------------------
(* The distance unit heuristic of the survey sheet (routes/analysis.py,    *)
(* lines 683-712)                                                          *)

\* Largest number of data rows of the sheets of this part
MaxUnitRows == 2

\* distance cells of the sheets, times 1000: values on both sides of the
\* threshold of 10
UnitDistanceSet == {0, 500, 5000, 10000, 10001, 15000, 20000, 1500000}

InitUnits ==
    /\ call_args \in [fn : {"xlsx_rows"},
                      rows : {SurveyRows(ds) : ds \in SeqsOf(UnitDistanceSet, 1, MaxUnitRows)}]
    /\ call_result = NoReturn

\* lines 683-712: the loop over rows[1:]
ReadSurveyRows ==
    /\ call_args.fn = "xlsx_rows"
    /\ ~call_result.done
    /\ call_result' = [done |-> TRUE, rows |-> NumericRows(Tail(call_args.rows))]
    /\ UNCHANGED call_args

---------------------------------------------------------------------------
(* Specifications                                                          *)

IdleMatch ==
    /\ lidar_files = <<>>
    /\ trail_coords = <<>>
    /\ trail_id = NoneId
    /\ match_result = MatchIdle

IdleLidar ==
    /\ cloud = <<>>
    /\ lidar_trail = <<>>
    /\ las_file = "no_match"
    /\ lidar_result = NoResult

IdleDem ==
    /\ dem_files = <<>>
    /\ dem_coords = <<>>
    /\ dem_result = DemNoResult

IdleUpload == InitUpload
IdleCache == InitCache
IdleSources ==
    /\ trail = [found |-> FALSE, coordinates |-> <<>>, gpx |-> <<>>]
    /\ lidar_outcome = [kind |-> "none", elevations |-> <<>>, distances |-> <<>>, relative |-> FALSE]
    /\ xlsx_outcome = [kind |-> "no_record", rows |-> <<>>]
    /\ dem_outcome = [kind |-> "none", elevations |-> <<>>]
    /\ response = NoResponse
    /\ second_response = NoResponse
IdleCall == call_args = NoCall /\ call_result = NoReturn
IdleAll ==
    IdleMatch /\ IdleLidar /\ IdleDem /\ IdleUpload /\ IdleCache /\ IdleSources
allOtherVars == <<matchVars, lidarVars, demVars, uploadVars, cacheVars, sourcesVars>>

\* find_matching_lidar_file called once on an arbitrary catalog
InitMatchSpec == InitMatch /\ IdleLidar /\ IdleDem /\ IdleUpload /\ IdleCache /\ IdleSources /\ IdleCall
NextMatch == FindMatchingLidarFile /\ UNCHANGED <<lidarVars, demVars, uploadVars, cacheVars, sourcesVars, callVars>>
SpecMatch == InitMatchSpec /\ [][NextMatch]_vars

\* extract_elevation_profile called once on an arbitrary file and trail
InitLidarSpec == InitLidar /\ IdleMatch /\ IdleDem /\ IdleUpload /\ IdleCache /\ IdleSources /\ IdleCall
NextLidar == ExtractElevationProfile /\ UNCHANGED <<matchVars, demVars, uploadVars, cacheVars, sourcesVars, callVars>>
SpecLidar == InitLidarSpec /\ [][NextLidar]_vars

\* RealDEMAnalyzer.extract_elevation_profile called once on arbitrary tiles
InitDemSpec == InitDem /\ IdleMatch /\ IdleLidar /\ IdleUpload /\ IdleCache /\ IdleSources /\ IdleCall
NextDem == DemExtractElevationProfile /\ UNCHANGED <<matchVars, lidarVars, uploadVars, cacheVars, sourcesVars, callVars>>
SpecDem == InitDemSpec /\ [][NextDem]_vars

\* upload requests served one after another, starting from an empty store
InitUploadSpec == InitUpload /\ IdleMatch /\ IdleLidar /\ IdleDem /\ IdleCache /\ IdleSources /\ IdleCall
NextUpload ==
    \/ UploadGpx /\ UNCHANGED <<matchVars, lidarVars, demVars, cacheVars, sourcesVars, callVars>>
    \/ GetTrails /\ UNCHANGED <<matchVars, lidarVars, demVars, cacheVars, sourcesVars, callVars>>
SpecUpload == InitUploadSpec /\ [][NextUpload]_vars

\* overlapping requests for one record whose file is not cached yet
InitCacheSpec == InitCache /\ IdleMatch /\ IdleLidar /\ IdleDem /\ IdleUpload /\ IdleSources /\ IdleCall
NextCache ==
    /\ \E r \in Requests :
          \/ CheckExists(r)
          \/ Get(r)
          \/ Open(r)
          \/ WriteChunk(r)
          \/ StreamError(r)
          \/ ReturnPath(r)
          \/ ReadFile(r)
    /\ UNCHANGED <<matchVars, lidarVars, demVars, uploadVars, sourcesVars, callVars>>
SpecCache == InitCacheSpec /\ [][NextCache]_vars

\* one elevation-sources request for an arbitrary trail and arbitrary
\* outcomes of the three extractions
InitSourcesSpec ==
    InitSources /\ IdleMatch /\ IdleLidar /\ IdleDem /\ IdleUpload /\ IdleCache /\ IdleCall
NextSources ==
    GetTrailElevationSources
        /\ UNCHANGED <<matchVars, lidarVars, demVars, uploadVars, cacheVars, callVars>>
SpecSources == InitSourcesSpec /\ [][NextSources]_vars

\* the survey clean-up applied once to an arbitrary sheet
InitSurveySpec == InitSurvey /\ IdleAll
NextSurvey == CleanSurvey /\ UNCHANGED allOtherVars
SpecSurvey == InitSurveySpec /\ [][NextSurvey]_vars

\* calculate_trail_similarity called on an arbitrary pair of trail records
InitSimilaritySpec == InitSimilarity /\ IdleAll
NextSimilarity == CallSimilarity /\ UNCHANGED allOtherVars
SpecSimilarity == InitSimilaritySpec /\ [][NextSimilarity]_vars

\* count_rolling_hills and analyze_rolling_hills called on arbitrary series
InitRollingSpec == InitRollingHills /\ IdleAll
NextRolling ==
    \/ CountRollingHills /\ UNCHANGED allOtherVars
    \/ AnalyzeRollingHills /\ UNCHANGED allOtherVars
SpecRolling == InitRollingSpec /\ [][NextRolling]_vars

\* calculate_terrain_variety called on an arbitrary elevation series
InitVarietySpec == InitTerrainVariety /\ IdleAll
NextVariety == CallTerrainVariety /\ UNCHANGED allOtherVars
SpecVariety == InitVarietySpec /\ [][NextVariety]_vars

\* count_rolling_hills called on a series and on its vertical shift
InitShiftSpec == InitShiftedHills /\ IdleAll
NextShift == CountShiftedHills /\ UNCHANGED allOtherVars
SpecShift == InitShiftSpec /\ [][NextShift]_vars

\* two elevation-sources requests for one trail, one after the other
InitRepeatSpec ==
    InitRepeat /\ IdleMatch /\ IdleLidar /\ IdleDem /\ IdleUpload /\ IdleCache /\ IdleCall
NextRepeat ==
    /\ \E first \in BOOLEAN : ElevationSourcesRequest(first)
    /\ UNCHANGED <<matchVars, lidarVars, demVars, uploadVars, cacheVars, callVars>>
SpecRepeat == InitRepeatSpec /\ [][NextRepeat]_vars

\* upload and delete requests served one after another; the extractor was
\* constructed on an empty lidar_files table
InitCatalogSpec == IdleAll /\ IdleCall
NextCatalog ==
    \/ UploadGpxOf(CatalogGpxFiles)
           /\ UNCHANGED <<matchVars, lidarVars, demVars, cacheVars, sourcesVars, callVars>>
    \/ UploadLidarFile
           /\ UNCHANGED <<trail_coords, trail_id, match_result, lidarVars, demVars, cacheVars, sourcesVars, callVars>>
    \/ DeleteLidarFile
           /\ UNCHANGED <<trail_coords, trail_id, match_result, lidarVars, demVars, cacheVars, sourcesVars, callVars>>
    \/ DeleteTrail
           /\ UNCHANGED <<trail_coords, trail_id, match_result, lidarVars, demVars, cacheVars, sourcesVars, callVars>>
SpecCatalog == InitCatalogSpec /\ [][NextCatalog]_vars

\* the rows of an arbitrary sheet read once
InitUnitsSpec == InitUnits /\ IdleAll
NextUnits == ReadSurveyRows /\ UNCHANGED allOtherVars
SpecUnits == InitUnitsSpec /\ [][NextUnits]_vars

---------------------------------------------------------------------------
(* Claims                                                                  *)

HasAssociated == trail_id # NoneId /\ \E i \in 1..Len(lidar_files) : lidar_files[i].trail_id = trail_id

BoundedRecords == {i \in 1..Len(lidar_files) : lidar_files[i].has_bounds}

RecordArea(i) == OverlapArea(TrailBBox(trail_coords), lidar_files[i].box)

\* C9: a call with a trail_id for which the catalog holds an associated
\* record returns a record carrying that trail_id, whatever the bounds and
\* overlaps of the records are.
C9_AssociatedRecordWins ==
    (match_result.called /\ HasAssociated)
        => /\ match_result.index # NoneIndex
           /\ lidar_files[match_result.index].trail_id = trail_id

\* C9 witness: the associated record has no bounds while another record,
\* not associated, overlaps the trail fully; the associated one is returned.
C9_Witness ==
    /\ match_result.called
    /\ HasAssociated
    /\ TrailArea(TrailBBox(trail_coords)) > 0
    /\ \E i, j \in 1..Len(lidar_files) :
          /\ lidar_files[i].trail_id = trail_id /\ ~lidar_files[i].has_bounds
          /\ lidar_files[j].trail_id # trail_id /\ lidar_files[j].has_bounds
          /\ RecordArea(j) = TrailArea(TrailBBox(trail_coords))
          /\ match_result.index = i

\* C10: without an associated record the call returns a record with known
\* bounds whose overlap ratio is the maximum over the records with known
\* bounds, provided that maximum exceeds 0.02, and None in every other case.
C10_BestOverlapOrNone ==
    (match_result.called /\ ~HasAssociated)
        => LET ta == TrailArea(TrailBBox(trail_coords))
               selectable ==
                   /\ ta > 0
                   /\ BoundedRecords # {}
                   /\ \E i \in BoundedRecords : RecordArea(i) * 50 > ta
           IN  IF selectable
               THEN /\ match_result.index \in BoundedRecords
                    /\ \A j \in BoundedRecords : RecordArea(j) <= RecordArea(match_result.index)
               ELSE match_result.index = NoneIndex

\* C10 witness: two bounded records with different overlaps, the larger one
\* second in the catalog, and it is the one returned.
C10_Witness ==
    /\ match_result.called
    /\ ~HasAssociated
    /\ Len(lidar_files) = 2
    /\ BoundedRecords = {1, 2}
    /\ RecordArea(1) > 0
    /\ RecordArea(2) > RecordArea(1)
    /\ match_result.index = 2

\* C7: in the absolute-coordinate branch the returned elevations have
\* exactly one entry per trail coordinate, for every pattern of trail points
\* with and without cloud points inside the search radius.
C7_OneElevationPerCoordinate ==
    (lidar_result.called /\ lidar_result.kdtree_built)
        => Len(lidar_result.elevations) = Len(lidar_trail)

\* C8: on success the raster series has exactly one elevation per input
\* trail coordinate.
C8_OneRasterSamplePerCoordinate ==
    (dem_result.called /\ dem_result.success)
        => Len(dem_result.elevations) = Len(dem_coords)

\* C5: for every accepted GPX file the cumulative distances have one entry
\* per coordinate, start at 0 and never decrease, so the stored
\* elevation_profile has as many entries as the stored coordinates.
C5_ProfileMatchesCoordinates ==
    \A k \in 1..Len(trails) :
        LET t == trails[k]
        IN  /\ Len(t.elevation_profile) = Len(t.coordinates)
            /\ t.elevation_profile[1].distance = 0
            /\ \A i \in 2..Len(t.elevation_profile) :
                   t.elevation_profile[i - 1].distance <= t.elevation_profile[i].distance

\* C2: when requests for the same uncached file overlap and no download
\* fails, a request that found the cache path existing and read the file
\* read the complete file.
C2_CacheHitReadsCompleteFile ==
    \A r \in Requests :
        (/\ request[r].pc = "done"
         /\ request[r].cache_hit
         /\ \A q \in Requests : ~request[q].failed)
            => request[r].read_complete

\* C1: a successful elevation-sources response has an entry for each of
\* the slots GPX, LiDAR, XLSX, QSpatial and Overall, and each entry is
\* either available or carries an error string.
C1_EntryForEverySlot ==
    (response.called /\ response.success) =>
        \A s \in Slots :
            /\ s \in DOMAIN response.sources
            /\ response.sources[s].available \/ response.sources[s].error # ""

\* C3: after the baseline alignment, every available source other than
\* GPX whose first elevation was more than 0.1 m away from the first GPX
\* elevation has its first elevation within 0.1 m of it.
C3_AlignedWithinTolerance ==
    (response.called /\ response.success) =>
        \A s \in DOMAIN response.sources :
            Shifted(response.before, s) =>
                Abs(response.sources[s].elevations[1]
                        - response.sources["GPX"].elevations[1]) <= AlignTolerance

\* C4: every available source of the response has elevations, distances
\* and slopes of the same length.
C4_SeriesOfEqualLength ==
    (response.called /\ response.success) =>
        \A s \in DOMAIN response.sources :
            response.sources[s].available =>
                /\ response.sources[s].has_slopes
                /\ Len(response.sources[s].distances) = Len(response.sources[s].elevations)
                /\ Len(response.sources[s].slopes) = Len(response.sources[s].elevations)

\* C6: the Overall series is as long as the shortest available source and
\* its i-th elevation is the mean of the i-th elevations the response
\* reports for the available sources.
C6_OverallIsMeanOfReported ==
    (response.called /\ response.success /\ response.sources["Overall"].available) =>
        LET reported == AvailableSources(SourceOrder, response.sources)
            overall == response.sources["Overall"].elevations
        IN  /\ \A k \in 1..Len(reported) : Len(overall) <= Len(reported[k].elevations)
            /\ \E k \in 1..Len(reported) : Len(overall) = Len(reported[k].elevations)
            /\ \A i \in 1..Len(overall) : overall[i] * Len(reported) = SumAt(reported, i)

\* twice the median of a non-empty sequence of gaps
TwiceMedian(gaps) ==
    LET sorted == SortInts(gaps)
        n == Len(sorted)
    IN  IF n % 2 = 1 THEN 2 * sorted[(n + 1) \div 2]
        ELSE sorted[n \div 2] + sorted[n \div 2 + 1]

\* gap j is the one gap of the cleaned series equal to 20 times the median
TwentyfoldGap(gaps, j) ==
    /\ gaps[j] = 10 * TwiceMedian(gaps)
    /\ \A i \in 1..Len(gaps) : i # j => gaps[i] # gaps[j]

\* C11 as stated: a sorted, deduplicated survey series with one gap equal
\* to 20 times the median gap is cut immediately before that gap.
C11_CutBeforeTwentyfoldGap ==
    (call_args.fn = "clean_xlsx" /\ call_result.done) =>
        LET gaps == Gaps(call_result.cleaned)
        IN  \A j \in 1..Len(gaps) :
                TwentyfoldGap(gaps, j) => call_result.cut = Take(call_result.cleaned, j)

\* C11 amended: a sorted, deduplicated survey series with one gap equal to
\* 20 times the median gap, that gap longer than 0.1 km and no earlier gap
\* longer than max(10 x median, 0.1 km), is cut immediately before that
\* gap: every row before it is kept and every row after it is dropped.
C11_CutBeforeTwentyfoldGapAboveFloor ==
    (call_args.fn = "clean_xlsx" /\ call_result.done) =>
        LET gaps == Gaps(call_result.cleaned)
        IN  \A j \in 1..Len(gaps) :
                (/\ TwentyfoldGap(gaps, j)
                 /\ gaps[j] > MinGapThreshold
                 /\ \A i \in 1..(j - 1) :
                        2 * gaps[i] <= Max2(10 * TwiceMedian(gaps), 2 * MinGapThreshold))
                    => call_result.cut = Take(call_result.cleaned, j)

C11_Witness ==
    /\ call_args.fn = "clean_xlsx"
    /\ call_result.done
    /\ \E j \in 1..Len(Gaps(call_result.cleaned)) :
          /\ TwentyfoldGap(Gaps(call_result.cleaned), j)
          /\ Gaps(call_result.cleaned)[j] > MinGapThreshold
          /\ call_result.cut = Take(call_result.cleaned, j)
          /\ Len(call_result.cut) < Len(call_result.cleaned)

\* C12: whenever the survey source is reported available, no row of the
\* returned survey series lies beyond the trail's total distance.
C12_SurveyWithinTrailDistance ==
    (/\ response.called
     /\ response.success
     /\ "XLSX" \in DOMAIN response.sources
     /\ response.sources["XLSX"].available) =>
        \A i \in 1..Len(response.sources["XLSX"].distances) :
            response.sources["XLSX"].distances[i]
                <= CumulativeDistance(trail.coordinates, Len(trail.coordinates))

\* the header bounds x_min, x_max, y_min, y_max of the file read are all
\* below 1000 in absolute value
HeaderBoundsBelow1000 ==
    /\ las_file = "readable"
    /\ \A i \in 1..Len(cloud) : Abs(cloud[i].x) < 1000 /\ Abs(cloud[i].y) < 1000

\* C13: a file whose header bounds are all below 1000 in absolute value is
\* handled by the relative-coordinate sampling path: no k-d tree is built,
\* no trail point is matched against the cloud, and the profile returned
\* is the one that path produces (its note, its own distances, full
\* coverage).
C13_RelativeFileTakesSamplingPath ==
    (lidar_result.called /\ HeaderBoundsBelow1000) =>
        /\ ~lidar_result.kdtree_built
        /\ cloud # <<>> => lidar_result.success
        /\ lidar_result.success =>
              /\ lidar_result.note = "LiDAR uses relative coordinates"
              /\ Len(lidar_result.distances) = Len(lidar_result.elevations)
              /\ lidar_result.coverage = [num |-> 100, den |-> 1]

C13_Witness ==
    /\ lidar_result.called
    /\ HeaderBoundsBelow1000
    /\ Len(cloud) >= 2
    /\ lidar_result.success
    /\ ~lidar_result.kdtree_built
    /\ Len(lidar_result.elevations) >= 2

\* the trail points that have a point of the filtered cloud within the
\* search radius
CoveredTrailPoints ==
    {i \in 1..Len(lidar_trail) :
        \E k \in 1..Len(GroundFilter(cloud)) :
            (GroundFilter(cloud)[k].x - lidar_trail[i][1]) * (GroundFilter(cloud)[k].x - lidar_trail[i][1])
              + (GroundFilter(cloud)[k].y - lidar_trail[i][2]) * (GroundFilter(cloud)[k].y - lidar_trail[i][2])
                <= SearchRadius * SearchRadius}

\* C14: the coverage the absolute-coordinate branch reports is the
\* percentage of trail points with at least one cloud point within the
\* search radius; points filled by carrying the previous elevation forward
\* do not count.
C14_CoverageCountsMatchedPoints ==
    (lidar_result.called /\ lidar_result.kdtree_built) =>
        lidar_result.coverage.num * Len(lidar_trail)
            = 100 * Cardinality(CoveredTrailPoints) * lidar_result.coverage.den

\* both records of the call carry the four metric fields
CarryMetricFields ==
    /\ MetricFields \subseteq DOMAIN call_args.trail1
    /\ MetricFields \subseteq DOMAIN call_args.trail2

\* the absolute difference of a metric field between the two records
FieldDiff(f) == Abs(call_args.trail1[f] - call_args.trail2[f])

\* the two similar trails: 5.0 and 5.5 km, 200 and 220 m of gain,
\* difficulty 6.5 and 6.8, rolling index 0.5 and 0.55
SimilarPair ==
    /\ call_args.trail1 = [distance |-> 500, elevation_gain |-> 200,
                           difficulty_score |-> 65, rolling_hills_index |-> 50]
    /\ call_args.trail2 = [distance |-> 550, elevation_gain |-> 220,
                           difficulty_score |-> 68, rolling_hills_index |-> 55]

\* the two trails differ by at least the window in each of the four
\* metric fields: 1 km, 500 m, 5 points, 0.5
BeyondAllWindows ==
    /\ FieldDiff("distance") >= 100
    /\ FieldDiff("elevation_gain") >= 500
    /\ FieldDiff("difficulty_score") >= 50
    /\ FieldDiff("rolling_hills_index") >= 50

\* C15: every closeness measure decays linearly from 1 to 0 over its
\* window, the distance measure reaching 0 once the distances differ by
\* 1 km or more; so the two similar trails score strictly between 0.8 and
\* 0.95, and two trails that differ beyond all the windows score below 0.3.
C15_ClosenessDecaysOverWindows ==
    (call_args.fn = "calculate_trail_similarity" /\ call_result.done /\ CarryMetricFields) =>
        /\ FieldDiff("distance") >= 100 => call_result.ab.distance_similarity = 0
        /\ FieldDiff("elevation_gain") >= 500 => call_result.ab.elevation_similarity = 0
        /\ FieldDiff("difficulty_score") >= 50 => call_result.ab.difficulty_similarity = 0
        /\ FieldDiff("rolling_hills_index") >= 50 => call_result.ab.rolling_similarity = 0
        /\ SimilarPair =>
              /\ 100 * call_result.ab.similarity > 80 * SimilarityOne
              /\ 100 * call_result.ab.similarity < 95 * SimilarityOne
        /\ BeyondAllWindows => 10 * call_result.ab.similarity < 3 * SimilarityOne

\* C16: for trails that carry the four metric fields the similarity is
\* symmetric, the similarity of a trail with itself is 1.0, and every
\* result and every closeness measure lies between 0 and 1.
C16_SymmetricReflexiveBounded ==
    (call_args.fn = "calculate_trail_similarity" /\ call_result.done /\ CarryMetricFields) =>
        /\ ~call_result.ab.raised /\ ~call_result.ba.raised /\ ~call_result.aa.raised
        /\ call_result.ab.similarity = call_result.ba.similarity
        /\ call_result.aa.similarity = SimilarityOne
        /\ call_result.ab.similarity \in 0..SimilarityOne
        /\ call_result.ab.elevation_similarity \in 0..ElevationWindow
        /\ call_result.ab.difficulty_similarity \in 0..DifficultyWindow
        /\ call_result.ab.rolling_similarity \in 0..RollingWindow
        /\ call_result.ab.surface_similarity \in 0..SurfaceWindow
        /\ call_result.ab.distance_similarity \in 0..DistanceWindow

C16_Witness ==
    /\ call_args.fn = "calculate_trail_similarity"
    /\ call_result.done
    /\ CarryMetricFields
    /\ call_args.trail1 # call_args.trail2
    /\ FieldDiff("elevation_gain") > 500
    /\ call_result.ab.elevation_similarity = 0
    /\ call_result.ab.similarity = call_result.ba.similarity
    /\ call_result.ab.similarity < SimilarityOne

\* C17: when the records lack some of the metric fields the function
\* raises no error and returns a number between 0 and 1.
C17_MissingFieldsTolerated ==
    (call_args.fn = "calculate_trail_similarity" /\ call_result.done /\ ~CarryMetricFields) =>
        /\ ~call_result.ab.raised
        /\ call_result.ab.similarity \in 0..SimilarityOne

\* no interior point of the series is strictly above, or strictly below,
\* both of its neighbours
NoStrictInteriorExtremum(elevations) ==
    \A i \in 2..(Len(elevations) - 1) :
        /\ ~(elevations[i] > elevations[i - 1] /\ elevations[i] > elevations[i + 1])
        /\ ~(elevations[i] < elevations[i - 1] /\ elevations[i] < elevations[i + 1])

BandsVisited(elevations) ==
    Cardinality({elevations[i] \div 100 : i \in 1..Len(elevations)})

\* the sum of the absolute differences of consecutive elevations
RECURSIVE TotalAbsDelta(_)
TotalAbsDelta(elevations) ==
    IF Len(elevations) < 2 THEN 0
    ELSE Abs(elevations[2] - elevations[1]) + TotalAbsDelta(Tail(elevations))

\* 2 when the mean absolute consecutive delta exceeds 20 m, 1 when it
\* exceeds 10 m, 0 otherwise
DeltaBonus(elevations) ==
    IF TotalAbsDelta(elevations) > 20 * (Len(elevations) - 1) THEN 2
    ELSE IF TotalAbsDelta(elevations) > 10 * (Len(elevations) - 1) THEN 1
    ELSE 0

\* C19: for every non-empty elevation series, of any length, the terrain
\* variety is min(10, min(distinct 100 m bands visited, 10) + bonus), the
\* bonus being 2 for a mean absolute delta above 20 m, 1 above 10 m and 0
\* otherwise.
C19_VarietyIsBandsPlusBonus ==
    (/\ call_args.fn = "calculate_terrain_variety"
     /\ call_result.done
     /\ call_args.elevations # <<>>) =>
        call_result.variety_score
            = Min2(10, Min2(BandsVisited(call_args.elevations), 10)
                         + DeltaBonus(call_args.elevations))

\* the level the thresholds Easy <= 3, Moderate <= 6, Hard <= 8,
\* Extreme > 8 assign to a score given in tenths of a point
ThresholdLevel(score) ==
    IF score <= 30 THEN "Easy"
    ELSE IF score <= 60 THEN "Moderate"
    ELSE IF score <= 80 THEN "Hard"
    ELSE "Extreme"

\* the difficulty_score of the row lies in [0, 10] and its difficulty_level
\* is the level the thresholds assign to that score
ScoreAndLevelAgree(row) ==
    /\ row.difficulty_score \in 0..100
    /\ row.difficulty_level = ThresholdLevel(row.difficulty_score)

\* C18: every trail stored by upload_gpx and every trail returned by
\* GET /trails has a difficulty_score in [0, 10] and the difficulty_level
\* that the thresholds assign to that difficulty_score.
C18_LevelMatchesScore ==
    /\ \A k \in 1..Len(trails) : ScoreAndLevelAgree(trails[k])
    /\ \A k \in 1..Len(trails_response.trails) : ScoreAndLevelAgree(trails_response.trails[k])

C22_RepeatedRequestSameSeries ==
    (response.called /\ response.success
        /\ second_response.called /\ second_response.success) =>
        /\ DOMAIN second_response.sources = DOMAIN response.sources
        /\ \A s \in DOMAIN response.sources :
              /\ second_response.sources[s].elevations = response.sources[s].elevations
              /\ second_response.sources[s].distances = response.sources[s].distances
              /\ second_response.sources[s].slopes = response.sources[s].slopes

\* the download of request r failed after it had written a chunk
FailedAfterWriting(r) == request[r].failed /\ request[r].offset >= 1

\* C23: when a download fails after some chunks were written to the cache
\* path, no file remains there once the failure is reported, and a request
\* that comes afterwards and finds the path existing reads a complete file.
C23_FailedDownloadLeavesNoEntry ==
    \A r \in Requests :
        FailedAfterWriting(r) =>
            /\ (\A q \in Requests \ {r} : request[q].pc = "idle") => ~cache_file.exists
            /\ \A q \in Requests \ {r} :
                  (request[q].pc = "done" /\ request[q].cache_hit) => request[q].read_complete

\* the files whose bounds contain the easting x on the trail line and whose
\* pixel there is not the no-data value
SuitableTiles(x) ==
    {j \in 1..Len(dem_files) :
        /\ dem_files[j].left <= x /\ x < dem_files[j].right
        /\ dem_files[j].bottom <= 0 /\ 0 <= dem_files[j].top
        /\ (x - dem_files[j].left) \notin dem_files[j].nodata_cols}

\* the pixel the first suitable file holds at x
FirstSuitablePixel(x) ==
    LET tile == dem_files[SetMin(SuitableTiles(x))]
    IN  tile.base + (x - tile.left)

\* C24: every sample point contributes at most one elevation, that of the
\* first candidate tile containing it with a pixel that is not no-data,
\* and the elevations are in path order, also when several tiles cover
\* the trail or contain the same point.
C24_FirstSuitablePixelInPathOrder ==
    (dem_result.called /\ dem_result.success) =>
        /\ \A k \in 2..Len(dem_result.samples) :
              dem_result.samples[k - 1] < dem_result.samples[k]
        /\ \A k \in 1..Len(dem_result.samples) :
              LET x == Interpolate(dem_coords, (dem_result.samples[k] - 1) * 10)
              IN  /\ SuitableTiles(x) # {}
                  /\ dem_result.elevations[k] = FirstSuitablePixel(x)

\* slopes of an entry of the response: the first is 0, all lie within
\* +-200 percent, and a step of at most 0.001 m repeats the previous slope
SlopesGuardedAndCapped(entry) ==
    /\ entry.slopes # <<>>
    /\ entry.slopes[1] = 0
    /\ \A i \in 1..Len(entry.slopes) : entry.slopes[i] \in -20000..20000
    /\ \A i \in 2..Len(entry.slopes) :
          entry.distances[i] - entry.distances[i - 1] <= 1
              => entry.slopes[i] = entry.slopes[i - 1]

\* C25: for every available source of the response slopes[0] is 0, every
\* slope lies within [-200, 200] percent, and where two consecutive points
\* are at most 0.001 m apart the slope repeats the previous slope (0 when
\* there is none).
C25_SlopesGuardedAndCapped ==
    (response.called /\ response.success) =>
        \A s \in DOMAIN response.sources :
            response.sources[s].available => SlopesGuardedAndCapped(response.sources[s])

\* the points the relative-coordinate path works on: the ground-filtered
\* cloud sorted along its dominant axis
RelativeSortedPoints ==
    LET pts == GroundFilter(cloud)
        xs == {pts[i].x : i \in 1..Len(pts)}
        ys == {pts[i].y : i \in 1..Len(pts)}
    IN  IF SetMax(xs) - SetMin(xs) > SetMax(ys) - SetMin(ys)
        THEN SortByAxis(pts, "x") ELSE SortByAxis(pts, "y")

\* the minima of n consecutive segments of size points each, the last one
\* ending at the last point
PartitionMinima(points, n, size) ==
    [i \in 1..n |->
        SetMin({points[k].z : k \in ((i - 1) * size + 1)..Min2(i * size, Len(points))})]

\* C26: for every non-empty point cloud routed to the relative-coordinate
\* path the result has exactly N = min(number of trail coordinates, 200)
\* elevations, each the minimum elevation of one of N consecutive
\* equal-size segments of the points sorted along the dominant axis, the
\* segments together covering every point; the distances have the length
\* of the elevations, start at 0 and never decrease.
C26_RelativeProfileIsPartitionMinima ==
    (lidar_result.called /\ HeaderBoundsBelow1000 /\ cloud # <<>>) =>
        LET points == RelativeSortedPoints
            n == Min2(Len(lidar_trail), MaxSamples)
        IN  /\ lidar_result.success
            /\ Len(lidar_result.elevations) = n
            /\ \E size \in 1..Len(points) :
                  /\ (n - 1) * size < Len(points)
                  /\ n * size >= Len(points)
                  /\ lidar_result.elevations = PartitionMinima(points, n, size)
            /\ Len(lidar_result.distances) = Len(lidar_result.elevations)
            /\ lidar_result.distances[1] = 0
            /\ \A k \in 2..Len(lidar_result.distances) :
                  lidar_result.distances[k - 1] <= lidar_result.distances[k]

\* C27: when POST /upload-gpx ends in an error response (400, 409 or 500)
\* the stored trails and LiDAR records are exactly those before the
\* request; with overwrite=true nothing is deleted unless the new trail is
\* inserted.
C27_FailedUploadChangesNothing ==
    [][(next_id' = next_id + 1 /\ upload_response'.status \in {400, 409, 500})
          => (trails' = trails /\ lidar_table' = lidar_table)]_vars

\* the rows of the lidar_files table
TableRecords == {lidar_table[i] : i \in 1..Len(lidar_table)}

\* C28: after every completed upload or delete request the extractor's
\* catalog lidar_files holds no record that was deleted from the
\* lidar_files table, so find_matching_lidar_file never returns a deleted
\* record.
C28_CatalogHoldsNoDeletedRecord ==
    /\ \A i \in 1..Len(lidar_files) : lidar_files[i] \in TableRecords
    /\ \A tid \in NoneId..MaxUploads, coords \in TrailSet :
          LET index == find_matching_lidar_file(lidar_files, coords, tid)
          IN  index # NoneIndex => lidar_files[index] \in TableRecords

\* C29: starting from an empty store, after any sequence of POST
\* /upload-gpx requests served one after another no two stored trails have
\* the same name and no two have start points less than 100 m apart.
C29_NoDuplicateTrails ==
    \A i, j \in 1..Len(trails) :
        i # j => /\ trails[i].name # trails[j].name
                 /\ Abs(trails[i].coordinates[1] - trails[j].coordinates[1]) >= DuplicateRadius

\* two trails are stored, the second one accepted by both duplicate checks
C29_Witness ==
    /\ Len(trails) = 2
    /\ upload_response.status = 200
    /\ upload_response.inserted

\* C30: the distance unit heuristic of the survey sheet (a cell above 10
\* is metres and divided by 1000, any other cell is kilometres) preserves
\* the order of the rows: a row whose cell is smaller than that of another
\* row has a converted distance that is not larger.
C30_UnitHeuristicPreservesOrder ==
    (call_args.fn = "xlsx_rows" /\ call_result.done) =>
        \A i, j \in 1..Len(call_result.rows) :
            call_args.rows[i + 1].d < call_args.rows[j + 1].d
                => call_result.rows[i].distance <= call_result.rows[j].distance

===========================================================================
